---- MODULE Spec2Model ----
(***************************************************************************)
(* Model of the technical-debt analysis pipeline:                          *)
(*   TechDebtOrchestrator.analyze_repository  (agents/orchestrator.py)     *)
(*   LLMJudge.evaluate_analysis               (evaluation/llm_judge.py)    *)
(*   HumanReviewLoopAgent                     (agents/human_review_loop.py)*)
(*   MetricsCollector                         (observability/metrics.py)   *)
(*   the three probes                         (tools/*.py)                 *)
(*   MemoryBank                               (memory/memory_bank.py)      *)
(*   InMemorySessionService, Session          (sessions/session_service.py)*)
(*   main, print_summary                      (main.py)                    *)
(*                                                                         *)
(* Specifications:                                                         *)
(*   Spec        runs of analyze_repository on orchestrator instances      *)
(*   SpecLive    the runs of one orchestrator, with fair scheduling        *)
(*   SpecScore   the aggregation phase over a range of probe results       *)
(*   SpecFloat   the aggregation phase with the score in binary64          *)
(*   SpecAdvice  the aggregation phase on results of the git probe         *)
(*   SpecJudge   the judge's parser over a range of response texts         *)
(*   SpecBank    store_analysis and clear_memories on a memory bank        *)
(*   SpecPersist every MemoryBank method, with and without a storage path  *)
(*   SpecSession every session operation, for capacities 0, 1 and 2        *)
(*   SpecProbe   the three probes over a range of repositories             *)
(*   SpecCli     main() around one run                                     *)
(*                                                                         *)
(* Units.  Python floats are kept as scaled integers:                      *)
(*   coverage      : percent (the probe rounds coverage to 2 decimals)     *)
(*   impact_score  : hundredths (the score is rounded to 2 decimals)       *)
(* SpecFloat computes the score in IEEE 754 binary64 and shows that it     *)
(* rounds to the scaled integer (FloatAgreesWithExact).                    *)
(* Durations are not represented; a timer is the number of measurements    *)
(* appended to it.  A timestamp is the reading of a clock that counts      *)
(* ticks.                                                                  *)
(***************************************************************************)
EXTENDS Integers, Sequences, FiniteSets, TLC

VARIABLES
    pc,                   \* position of the controller coroutine
    args,                 \* arguments of the current analyze_repository call
    correlation_id,       \* TechDebtOrchestrator.correlation_id
    next_id,              \* next value generate_correlation_id() will return
    task,                 \* state of the three asyncio tasks of the fan-out
    task_result,          \* value each finished task resolved to
    parallel_results,     \* local of analyze_repository
    impact_results,       \* local of analyze_repository
    results,              \* local `results`; after the return, the value the caller holds
    generation,           \* outcome of the text-generation call at each call site, this run
    log,                  \* logger events of the current run
    counters,             \* MetricsCollector.counters
    timers,               \* MetricsCollector.timers["full_analysis"], as a count
    review_history,       \* HumanReviewLoopAgent.review_history
    feedback_result,      \* last process_feedback call a client made on the current review agent, with its value
    returned,             \* per finished run: what the caller received, reduced to status, id and keys
    memories,             \* MemoryBank.memories
    patterns,             \* MemoryBank.patterns
    insights,             \* MemoryBank.insights
    storage_path,         \* MemoryBank.storage_path: TRUE when a path is configured
    disk,                 \* the snapshot file at the storage path
    lookup,               \* the last MemoryBank call and the value it returned
    clock,                \* datetime.now(), as the number of ticks so far
    sessions,             \* InMemorySessionService.sessions, in insertion order
    max_sessions,         \* InMemorySessionService.max_sessions
    uuids,                \* the number of session ids drawn so far
    session_call,         \* the last session call and the value it returned
    environment,          \* the repository the probes look at
    probe_call,           \* the last probe call and its outcome
    main_pc,              \* where main() of the command line is
    options,              \* the parsed command line
    exit_code,            \* the code the process exited with
    judge_response,       \* argument of LLMJudge._parse_evaluation_response
    parsed_evaluation     \* value LLMJudge._parse_evaluation_response returned

vars == <<pc, args, correlation_id, next_id, task, task_result, parallel_results,
          impact_results, results, generation, log, counters, timers,
          review_history, feedback_result, returned, memories, patterns, insights,
          storage_path, disk, lookup, clock, sessions, max_sessions, uuids,
          session_call, environment, probe_call, main_pc, options, exit_code,
          judge_response,
          parsed_evaluation>>

-----------------------------------------------------------------------------
(* Bounds *)

MaxRuns == 2
MaxInstances == 2
MaxChurnFiles == 7
MaxVulns == 4
MaxLines == 3
MaxStores == 3
MaxCreates == 3
MaxTicks == 1
MaxMessages == 1

-----------------------------------------------------------------------------
(* Values *)

Probes == {"git_analysis", "cve_analysis", "documentation_analysis"}

RepoPaths == {"."}

AnalysisTypes == {"comprehensive"}

NoResult == [none |-> TRUE]

CallSites == {"impact", "judge", "refinement"}

CounterNames == {"analyses_completed", "analyses_failed",
                 "git_analyses_completed", "cve_scans_completed",
                 "doc_analyses_completed",
                 "ai_analyses_completed", "ai_analyses_failed"}

\* dict.get(key, default)
Get(d, k, default) == IF k \in DOMAIN d THEN d[k] ELSE default

Min(a, b) == IF a < b THEN a ELSE b

-----------------------------------------------------------------------------
(* Probes: the results each probe can resolve to *)

GIT_LOOKBACK_DAYS == 90

\* risk score of a completed git analysis with n high-churn files
git_risk_score(n) == IF n = 0 THEN 10 ELSE Min(100, 30 + n * 10)

git_completed(files, commits) ==
    [risk_score       |-> git_risk_score(Len(files)),
     total_commits    |-> commits,
     high_churn_files |-> SubSeq(files, 1, Min(Len(files), 10)),
     lookback_days    |-> GIT_LOOKBACK_DAYS]

git_error(msg) ==
    [error            |-> msg,
     risk_score       |-> 0,
     high_churn_files |-> <<>>,
     total_commits    |-> 0]

analyze_git_history ==
    { git_completed(<<"a.py", "b.py", "c.py">>, 12),
      git_error("Not a git repository") }

cve_completed(vulns, ndeps) ==
    [vulnerabilities    |-> vulns,
     total_dependencies |-> ndeps,
     severity_summary   |->
         [s \in {"CRITICAL", "HIGH", "MEDIUM", "LOW"} |->
             Len(SelectSeq(vulns, LAMBDA v : v.severity = s))],
     scan_status        |-> "completed"]

cve_no_dependencies ==
    [vulnerabilities    |-> <<>>,
     total_dependencies |-> 0,
     scan_status        |-> "no_dependency_files_found"]

cve_error ==
    [error              |-> "Scan failed",
     vulnerabilities    |-> <<>>,
     total_dependencies |-> 0,
     scan_status        |-> "error"]

scan_dependencies_for_cves ==
    { cve_completed(<<[package |-> "django", version |-> "2.2.0",
                       cve_id |-> "CVE-2020-DEMO", severity |-> "CRITICAL"],
                      [package |-> "requests", version |-> "2.25.0",
                       cve_id |-> "CVE-2021-DEMO", severity |-> "HIGH"]>>, 2),
      cve_no_dependencies,
      cve_error }

doc_completed(cov, total, documented, undocumented) ==
    [coverage           |-> cov,
     has_readme         |-> TRUE,
     total_files        |-> total,
     documented_files   |-> documented,
     undocumented_files |-> undocumented,
     function_coverage  |-> 50,
     class_coverage     |-> 100,
     total_functions    |-> 4,
     total_classes      |-> 0,
     analysis_status    |-> "completed"]

doc_error ==
    [error           |-> "Analysis failed",
     coverage        |-> 0,
     has_readme      |-> FALSE,
     total_files     |-> 0,
     analysis_status |-> "error"]

analyze_documentation ==
    { doc_completed(40, 5, 2, <<"x.py", "y.py">>),
      doc_error }

ProbeResults(p) ==
    CASE p = "git_analysis"           -> analyze_git_history
      [] p = "cve_analysis"           -> scan_dependencies_for_cves
      [] p = "documentation_analysis" -> analyze_documentation

-----------------------------------------------------------------------------
(* Aggregation: TechDebtOrchestrator._analyze_impact and its helpers *)

Message(text, n) == [text |-> text, n |-> n]

_identify_key_risks_inclusive(pr) ==
    LET git_risk       == Get(pr["git_analysis"], "risk_score", 0)
        vulns          == Get(pr["cve_analysis"], "vulnerabilities", <<>>)
        critical_vulns == SelectSeq(vulns, LAMBDA v : Get(v, "severity", "") = "CRITICAL")
        doc_coverage   == Get(pr["documentation_analysis"], "coverage", 0)
        risks ==
            (IF git_risk >= 50
                THEN <<Message("High code churn detected - potential stability issues", 0)>>
                ELSE <<>>)
            \o (IF critical_vulns # <<>>
                THEN <<Message("Critical security vulnerabilities found", Len(critical_vulns))>>
                ELSE <<>>)
            \o (IF doc_coverage < 50
                THEN <<Message("Low documentation coverage - maintainability concern", 0)>>
                ELSE <<>>)
    IN  IF risks # <<>> THEN risks
        ELSE <<Message("No critical risks identified", 0)>>

_identify_key_risks(pr) ==
    LET git_risk       == Get(pr["git_analysis"], "risk_score", 0)
        vulns          == Get(pr["cve_analysis"], "vulnerabilities", <<>>)
        critical_vulns == SelectSeq(vulns, LAMBDA v : Get(v, "severity", "") = "CRITICAL")
        doc_coverage   == Get(pr["documentation_analysis"], "coverage", 0)
        risks ==
            (IF git_risk > 50
                THEN <<Message("High code churn detected - potential stability issues", 0)>>
                ELSE <<>>)
            \o (IF critical_vulns # <<>>
                THEN <<Message("Critical security vulnerabilities found", Len(critical_vulns))>>
                ELSE <<>>)
            \o (IF doc_coverage < 50
                THEN <<Message("Low documentation coverage - maintainability concern", 0)>>
                ELSE <<>>)
    IN  IF risks # <<>> THEN risks
        ELSE <<Message("No critical risks identified", 0)>>

\* the documentation recommendation from a coverage below 0.3
_generate_recommendations_below_30(pr) ==
    LET high_churn_files == Get(pr["git_analysis"], "high_churn_files", <<>>)
        vulns            == Get(pr["cve_analysis"], "vulnerabilities", <<>>)
        doc_coverage     == Get(pr["documentation_analysis"], "coverage", 0)
        recommendations ==
            (IF high_churn_files # <<>>
                THEN <<Message("Review and refactor high-churn files", Len(high_churn_files))>>
                ELSE <<>>)
            \o (IF vulns # <<>>
                THEN <<Message("Update vulnerable dependencies immediately", Len(vulns))>>
                ELSE <<>>)
            \o (IF doc_coverage < 30
                THEN <<Message("Improve documentation coverage to at least 70%", 0)>>
                ELSE <<>>)
    IN  IF recommendations # <<>> THEN recommendations
        ELSE <<Message("Continue maintaining current standards", 0)>>

_generate_recommendations(pr) ==
    LET high_churn_files == Get(pr["git_analysis"], "high_churn_files", <<>>)
        vulns            == Get(pr["cve_analysis"], "vulnerabilities", <<>>)
        doc_coverage     == Get(pr["documentation_analysis"], "coverage", 0)
        recommendations ==
            (IF high_churn_files # <<>>
                THEN <<Message("Review and refactor high-churn files", Len(high_churn_files))>>
                ELSE <<>>)
            \o (IF vulns # <<>>
                THEN <<Message("Update vulnerable dependencies immediately", Len(vulns))>>
                ELSE <<>>)
            \o (IF doc_coverage < 70
                THEN <<Message("Improve documentation coverage to at least 70%", 0)>>
                ELSE <<>>)
    IN  IF recommendations # <<>> THEN recommendations
        ELSE <<Message("Continue maintaining current standards", 0)>>

impact_score_uncapped(git_risk, cve_count, doc_coverage) ==
    git_risk * 30 + cve_count * 20 * 40 + (100 - doc_coverage) * 30

\* impact score in hundredths:
\*   git_risk*0.3 + min(cve_count*20, 50)*0.4 + (1 - doc_coverage)*100*0.3
\* For the integer risk scores the git probe returns and a coverage of two
\* decimals the exact value is a multiple of 0.1; the float the code computes
\* rounds to it and lies on the same side of 30, 50 and 70
\* (FloatAgreesWithExact, under SpecFloat).
impact_score(git_risk, cve_count, doc_coverage) ==
    git_risk * 30 + Min(cve_count * 20, 50) * 40 + (100 - doc_coverage) * 30

severity_of_inclusive(score) ==
    IF score >= 7000 THEN "critical"
    ELSE IF score >= 5000 THEN "high"
    ELSE IF score >= 3000 THEN "medium"
    ELSE "low"

severity_of(score) ==
    IF score > 7000 THEN "critical"
    ELSE IF score > 5000 THEN "high"
    ELSE IF score > 3000 THEN "medium"
    ELSE "low"

_analyze_impact_failing_with_narrative(pr, gen) ==
    LET git_risk     == Get(pr["git_analysis"], "risk_score", 0)
        cve_count    == Len(Get(pr["cve_analysis"], "vulnerabilities", <<>>))
        doc_coverage == Get(pr["documentation_analysis"], "coverage", 0)
        score        == IF gen = "ok" THEN impact_score(git_risk, cve_count, doc_coverage)
                        ELSE 0
    IN  [impact_score    |-> score,
         severity        |-> severity_of(score),
         key_risks       |-> _identify_key_risks(pr),
         recommendations |-> _generate_recommendations(pr),
         ai_analysis     |-> IF gen = "ok" THEN "generated narrative"
                             ELSE "AI analysis unavailable"]

\* gen is the outcome of model.generate_content at this call site: "ok" or "fail"
_analyze_impact(pr, gen) ==
    LET git_risk     == Get(pr["git_analysis"], "risk_score", 0)
        cve_count    == Len(Get(pr["cve_analysis"], "vulnerabilities", <<>>))
        doc_coverage == Get(pr["documentation_analysis"], "coverage", 0)
        score        == impact_score(git_risk, cve_count, doc_coverage)
    IN  [impact_score    |-> score,
         severity        |-> severity_of(score),
         key_risks       |-> _identify_key_risks(pr),
         recommendations |-> _generate_recommendations(pr),
         ai_analysis     |-> IF gen = "ok" THEN "generated narrative"
                             ELSE "AI analysis unavailable"]

_generate_report(pr, impact) ==
    [executive_summary |->
        [impact_score |-> impact.impact_score,
         severity     |-> impact.severity,
         total_issues |->
             Len(Get(pr["git_analysis"], "high_churn_files", <<>>))
             + Len(Get(pr["cve_analysis"], "vulnerabilities", <<>>))
             + Len(Get(pr["documentation_analysis"], "undocumented_files", <<>>))],
     detailed_findings |->
        [git_analysis           |-> pr["git_analysis"],
         security_analysis      |-> pr["cve_analysis"],
         documentation_analysis |-> pr["documentation_analysis"]],
     impact_assessment |-> impact,
     recommendations   |-> impact.recommendations]

-----------------------------------------------------------------------------
(* Evaluation: LLMJudge *)

(* A response text is a sequence of stripped lines.  A line is a record:   *)
(*   [label, isint, val]  a line starting with "<label>:", whose text      *)
(*                        between the first and second colon int() accepts *)
(*                        (isint, giving val) or rejects;                  *)
(*   [header]             a line equal to "STRENGTHS:", "WEAKNESSES:" or   *)
(*                        "RECOMMENDATIONS:";                              *)
(*   [item]               a line starting with "- ";                       *)
(*   [other]              any other line.                                  *)
Field(label, v)  == [label |-> label, isint |-> TRUE, val |-> v]
BadField(label)  == [label |-> label, isint |-> FALSE, val |-> 0]
Header(section)  == [header |-> section]
Bullet(text)     == [item |-> text]
OtherLine        == [other |-> TRUE]

DimensionLabels == {"COMPLETENESS", "ACCURACY", "ACTIONABILITY", "CLARITY"}

DimensionKey(label) ==
    CASE label = "COMPLETENESS"  -> "completeness"
      [] label = "ACCURACY"      -> "accuracy"
      [] label = "ACTIONABILITY" -> "actionability"
      [] label = "CLARITY"       -> "clarity"

\* int(x): truncation toward zero of a quotient
TruncDiv(a, b) == IF a >= 0 THEN a \div b ELSE -((-a) \div b)

RECURSIVE SumOver(_, _)
SumOver(f, keys) ==
    IF keys = {} THEN 0
    ELSE LET k == CHOOSE x \in keys : TRUE
         IN  f[k] + SumOver(f, keys \ {k})

EmptyEvaluation ==
    [overall_score   |-> 0,
     dimensions      |-> <<>>,
     strengths       |-> <<>>,
     weaknesses      |-> <<>>,
     recommendations |-> <<>>,
     current_section |-> "None"]

ParseLine_prepending(ev, line) ==
    IF "label" \in DOMAIN line /\ line.label = "OVERALL_SCORE"
        THEN [ev EXCEPT !.overall_score = IF line.isint THEN line.val ELSE 0]
    ELSE IF "label" \in DOMAIN line /\ line.label \in DimensionLabels
        THEN IF line.isint
                THEN [ev EXCEPT !.dimensions =
                         (DimensionKey(line.label) :> line.val) @@ ev.dimensions]
                ELSE ev
    ELSE IF "header" \in DOMAIN line
        THEN [ev EXCEPT !.current_section = line.header]
    ELSE IF "item" \in DOMAIN line /\ ev.current_section # "None"
        THEN [ev EXCEPT ![ev.current_section] = <<line.item>> \o ev[ev.current_section]]
    ELSE ev

\* one iteration of the line loop
ParseLine(ev, line) ==
    IF "label" \in DOMAIN line /\ line.label = "OVERALL_SCORE"
        THEN [ev EXCEPT !.overall_score = IF line.isint THEN line.val ELSE 0]
    ELSE IF "label" \in DOMAIN line /\ line.label \in DimensionLabels
        THEN IF line.isint
                THEN [ev EXCEPT !.dimensions =
                         (DimensionKey(line.label) :> line.val) @@ ev.dimensions]
                ELSE ev
    ELSE IF "header" \in DOMAIN line
        THEN [ev EXCEPT !.current_section = line.header]
    ELSE IF "item" \in DOMAIN line /\ ev.current_section # "None"
        THEN [ev EXCEPT ![ev.current_section] = Append(ev[ev.current_section], line.item)]
    ELSE ev

RECURSIVE ParseLines(_, _)
ParseLines(ev, lines) ==
    IF lines = <<>> THEN ev
    ELSE ParseLines(ParseLine(ev, Head(lines)), Tail(lines))

_parse_evaluation_response_rounding(response_text) ==
    LET ev   == ParseLines(EmptyEvaluation, response_text)
        dims == ev.dimensions
        n    == Cardinality(DOMAIN dims)
        overall ==
            IF ev.overall_score = 0 /\ DOMAIN dims # {}
                THEN TruncDiv(2 * SumOver(dims, DOMAIN dims) + n, 2 * n)
                ELSE ev.overall_score
    IN  [overall_score   |-> overall,
         dimensions      |-> dims,
         strengths       |-> ev.strengths,
         weaknesses      |-> ev.weaknesses,
         recommendations |-> ev.recommendations]

_parse_evaluation_response(response_text) ==
    LET ev   == ParseLines(EmptyEvaluation, response_text)
        dims == ev.dimensions
        overall ==
            IF ev.overall_score = 0 /\ DOMAIN dims # {}
                THEN TruncDiv(SumOver(dims, DOMAIN dims), Cardinality(DOMAIN dims))
                ELSE ev.overall_score
    IN  [overall_score   |-> overall,
         dimensions      |-> dims,
         strengths       |-> ev.strengths,
         weaknesses      |-> ev.weaknesses,
         recommendations |-> ev.recommendations]

\* What generate_content can do at the judge call site: fail (the call, or
\* reading response.text, raises) or return a response text.
GenerationFailed == [ok |-> FALSE]
Generated(text) == [ok |-> TRUE, text |-> text]

WellFormedResponse ==
    <<Field("OVERALL_SCORE", 85), OtherLine,
      Field("COMPLETENESS", 90), Field("ACCURACY", 80),
      Field("ACTIONABILITY", 75), Field("CLARITY", 95),
      Header("strengths"), Bullet("s1"),
      Header("weaknesses"), Bullet("w1"),
      Header("recommendations"), Bullet("r1")>>

PartialResponse ==
    <<Field("COMPLETENESS", 90), BadField("ACCURACY"), Bullet("stray"),
      Field("CLARITY", 95)>>

JudgeOutcomes ==
    {GenerationFailed, Generated(WellFormedResponse), Generated(PartialResponse)}

evaluate_analysis_unannotated(analysis_results, outcome) ==
    IF outcome.ok
        THEN LET evaluation == _parse_evaluation_response(outcome.text)
             IN  [overall_score    |-> evaluation.overall_score,
                  dimension_scores |-> evaluation.dimensions,
                  strengths        |-> evaluation.strengths,
                  weaknesses       |-> evaluation.weaknesses,
                  recommendations  |-> evaluation.recommendations,
                  judge_model      |-> "gemini-2.5-flash-lite"]
        ELSE [overall_score    |-> 0,
              judge_model      |-> "gemini-2.5-flash-lite"]

evaluate_analysis(analysis_results, outcome) ==
    IF outcome.ok
        THEN LET evaluation == _parse_evaluation_response(outcome.text)
             IN  [overall_score    |-> evaluation.overall_score,
                  dimension_scores |-> evaluation.dimensions,
                  strengths        |-> evaluation.strengths,
                  weaknesses       |-> evaluation.weaknesses,
                  recommendations  |-> evaluation.recommendations,
                  judge_model      |-> "gemini-2.5-flash-lite"]
        ELSE [overall_score |-> 0,
              error         |-> "Evaluation failed"]

-----------------------------------------------------------------------------
(* Human review: HumanReviewLoopAgent *)

\* Review ids are "review_<timestamp>"; successive requests of one agent get
\* increasing timestamps, kept here as the position in the history.  The
\* summary, focus areas and questions of a request are derived from the
\* reviewed record and read only to build the refinement prompt; the entry
\* keeps the fields the agent's operations branch on.
new_review_request(history, rs) ==
    [review_id |-> Len(history) + 1,
     status    |-> "pending_review"]

request_review_twice(history, rs) ==
    Append(Append(history, new_review_request(history, rs)),
           new_review_request(history, rs))

request_review(history, rs) ==
    Append(history, new_review_request(history, rs))

simulate_review(rs) ==
    [overall_rating |-> 4, approved |-> TRUE, reviewer |-> "automated_simulation"]

process_feedback_swallowing(history, review_id, feedback, gen) ==
    [status             |-> "completed",
     review_id          |-> review_id,
     feedback_processed |-> feedback,
     refinement         |-> "refined analysis"]

process_feedback(history, review_id, feedback, gen) ==
    IF ~ \E i \in 1..Len(history) : history[i].review_id = review_id
        THEN [status |-> "error", message |-> "Review not found"]
    ELSE IF gen = "ok"
        THEN [status             |-> "completed",
              review_id          |-> review_id,
              feedback_processed |-> feedback,
              refinement         |-> "refined analysis"]
    ELSE [status    |-> "error",
          error     |-> "generation failed",
          review_id |-> review_id]

-----------------------------------------------------------------------------
(* Metrics: MetricsCollector *)

increment(c, name) == [c EXCEPT ![name] = @ + 1]

record_duration(t) == t + 1

-----------------------------------------------------------------------------
(* The fan-in of the three probe tasks: asyncio.gather *)

\* gather returns once every task has resolved to a value
gather_first_completed(t) == \E p \in Probes : t[p] = "done"

gather_returns(t) == \A p \in Probes : t[p] = "done"

\* gather raises as soon as one task has raised; an error-marked result is a value
gather_raises_on_error_result(t, r) ==
    \E p \in Probes : t[p] = "raised" \/ (t[p] = "done" /\ "error" \in DOMAIN r[p])

gather_raises(t, r) == \E p \in Probes : t[p] = "raised"

-----------------------------------------------------------------------------
(* State *)

NoGeneration == [c \in CallSites |-> "none"]

\* a memory bank constructed without a storage path, nothing stored
BankIdle ==
    /\ memories = <<>>
    /\ patterns = <<>>
    /\ insights = <<>>
    /\ storage_path = FALSE
    /\ disk = NoResult
    /\ lookup = NoResult
    /\ clock = 0

\* the session service of get_session_service(), nothing created
SessionsIdle ==
    /\ sessions = <<>>
    /\ max_sessions = 100
    /\ uuids = 0
    /\ session_call = NoResult

JudgeIdle ==
    /\ judge_response = <<>>
    /\ parsed_evaluation = NoResult

memory_bank == <<memories, patterns, insights, storage_path, disk, lookup>>

bank == <<memory_bank, clock>>

session_service == <<sessions, max_sessions, uuids, session_call>>

\* no probe has been called directly
ProbesIdle ==
    /\ environment = NoResult
    /\ probe_call = NoResult

probes == <<environment, probe_call>>

\* no command line is running
CliIdle ==
    /\ main_pc = "none"
    /\ options = NoResult
    /\ exit_code = NoResult

cli == <<main_pc, options, exit_code>>

judge == <<judge_response, parsed_evaluation>>

\* what the caller keeps of a returned record
Receipt(rs) ==
    [status |-> rs.status, correlation_id |-> rs.correlation_id, keys |-> DOMAIN rs]

Init ==
    /\ pc = "idle"
    /\ args = NoResult
    /\ correlation_id = 1
    /\ next_id = 2
    /\ task = [p \in Probes |-> "none"]
    /\ task_result = [p \in Probes |-> NoResult]
    /\ parallel_results = NoResult
    /\ impact_results = NoResult
    /\ results = NoResult
    /\ generation = NoGeneration
    /\ log = <<>>
    /\ counters = [c \in CounterNames |-> 0]
    /\ timers = 0
    /\ review_history = <<>>
    /\ feedback_result = NoResult
    /\ returned = <<>>
    /\ BankIdle
    /\ SessionsIdle
    /\ ProbesIdle
    /\ CliIdle
    /\ JudgeIdle

\* state no step of analyze_repository reads or writes
stores == <<bank, session_service, judge, probes, cli>>

-----------------------------------------------------------------------------
(* TechDebtOrchestrator() *)

NewOrchestrator ==
    /\ pc = "idle"
    /\ next_id <= MaxInstances
    /\ correlation_id' = next_id
    /\ next_id' = next_id + 1
    /\ review_history' = <<>>
    /\ feedback_result' = NoResult
    /\ UNCHANGED <<pc, args, task, task_result, parallel_results, impact_results,
                   results, generation, log, counters, timers, returned, stores>>

-----------------------------------------------------------------------------
(* analyze_repository, one action per step between suspension points and  *)
(* external calls                                                          *)

\* entry, phase 1 started, the three tasks created
StartRun(repo_path, analysis_type, enable_human_review) ==
    /\ pc = "idle"
    /\ Len(returned) < MaxRuns
    /\ pc' = "probing"
    /\ args' = [repo_path           |-> repo_path,
                analysis_type       |-> analysis_type,
                enable_human_review |-> enable_human_review]
    /\ task' = [p \in Probes |-> "running"]
    /\ task_result' = [p \in Probes |-> NoResult]
    /\ parallel_results' = NoResult
    /\ impact_results' = NoResult
    /\ results' = NoResult
    /\ generation' = NoGeneration
    /\ log' = <<"analysis_started", "phase_1_started">>
    /\ feedback_result' = NoResult
    /\ UNCHANGED <<correlation_id, next_id, counters, timers, review_history,
                   returned, stores>>

\* the probe's thread counts its own completion
ProbeReturn_counting(p, r) ==
    /\ task[p] = "running"
    /\ task' = [task EXCEPT ![p] = "done"]
    /\ task_result' = [task_result EXCEPT ![p] = r]
    /\ counters' = increment(counters, "git_analyses_completed")
    /\ UNCHANGED <<pc, args, correlation_id, next_id, parallel_results, impact_results,
                   results, generation, log, timers, review_history, feedback_result,
                   returned, stores>>

\* a probe returns its result (completed, no data, or error-marked)
ProbeReturn(p, r) ==
    /\ task[p] = "running"
    /\ task' = [task EXCEPT ![p] = "done"]
    /\ task_result' = [task_result EXCEPT ![p] = r]
    /\ UNCHANGED <<pc, args, correlation_id, next_id, parallel_results, impact_results,
                   results, generation, log, counters, timers, review_history,
                   feedback_result, returned, stores>>

\* the task itself raises (the thread hand-off fails)
ProbeRaise(p) ==
    /\ task[p] = "running"
    /\ task' = [task EXCEPT ![p] = "raised"]
    /\ UNCHANGED <<pc, args, correlation_id, next_id, task_result, parallel_results,
                   impact_results, results, generation, log, counters, timers,
                   review_history, feedback_result, returned, stores>>

\* gather returns: tool counters, phase 1 completed, phase 2 started
GatherReturn ==
    /\ pc = "probing"
    /\ gather_returns(task)
    /\ ~ gather_raises(task, task_result)
    /\ parallel_results' = [p \in Probes |-> task_result[p]]
    /\ counters' = increment(increment(increment(counters,
                       "git_analyses_completed"), "cve_scans_completed"),
                       "doc_analyses_completed")
    /\ log' = log \o <<"phase_1_completed", "phase_2_started">>
    /\ pc' = "aggregation"
    /\ UNCHANGED <<args, correlation_id, next_id, task, task_result, impact_results,
                   results, generation, timers, review_history, feedback_result,
                   returned, stores>>

ErrorRecord ==
    [status         |-> "error",
     error          |-> "exception",
     repo_path      |-> args.repo_path,
     correlation_id |-> correlation_id]

\* asyncio.wait_for around gather: the except branch is also reached when the
\* wait times out
RunFails_on_timeout ==
    /\ pc = "probing"
    /\ gather_raises(task, task_result) \/ ~gather_returns(task)
    /\ counters' = increment(counters, "analyses_failed")
    /\ results' = ErrorRecord
    /\ returned' = Append(returned, Receipt(ErrorRecord))
    /\ log' = Append(log, "analysis_failed")
    /\ parallel_results' = NoResult
    /\ impact_results' = NoResult
    /\ pc' = "idle"
    /\ UNCHANGED <<args, correlation_id, next_id, task, task_result, generation,
                   timers, review_history, feedback_result, stores>>

\* gather raises: the except branch of analyze_repository
RunFails_counting_completed ==
    /\ pc = "probing"
    /\ gather_raises(task, task_result)
    /\ counters' = increment(counters, "analyses_completed")
    /\ results' = ErrorRecord
    /\ returned' = Append(returned, Receipt(ErrorRecord))
    /\ log' = Append(log, "analysis_failed")
    /\ parallel_results' = NoResult
    /\ impact_results' = NoResult
    /\ pc' = "idle"
    /\ UNCHANGED <<args, correlation_id, next_id, task, task_result, generation,
                   timers, review_history, feedback_result, stores>>

RunFails ==
    /\ pc = "probing"
    /\ gather_raises(task, task_result)
    /\ counters' = increment(counters, "analyses_failed")
    /\ results' = ErrorRecord
    /\ returned' = Append(returned, Receipt(ErrorRecord))
    /\ log' = Append(log, "analysis_failed")
    /\ parallel_results' = NoResult
    /\ impact_results' = NoResult
    /\ pc' = "idle"
    /\ UNCHANGED <<args, correlation_id, next_id, task, task_result, generation,
                   timers, review_history, feedback_result, stores>>

\* the failure of the narrative call reaches the except branch of
\* analyze_repository
AnalyzeImpact_aborting(gen) ==
    /\ pc = "aggregation"
    /\ generation' = [generation EXCEPT !["impact"] = gen]
    /\ IF gen = "ok"
          THEN /\ counters' = increment(counters, "ai_analyses_completed")
               /\ impact_results' = _analyze_impact(parallel_results, gen)
               /\ log' = log \o <<"phase_2_completed", "phase_3_started">>
               /\ pc' = "reporting"
               /\ UNCHANGED <<results, returned, parallel_results>>
          ELSE /\ counters' = increment(counters, "analyses_failed")
               /\ results' = ErrorRecord
               /\ returned' = Append(returned, Receipt(ErrorRecord))
               /\ log' = Append(log, "analysis_failed")
               /\ parallel_results' = NoResult
               /\ impact_results' = NoResult
               /\ pc' = "idle"
    /\ UNCHANGED <<args, correlation_id, next_id, task, task_result, timers,
                   review_history, feedback_result, stores>>

\* _analyze_impact: narrative call (caught at the call site), score, lists
AnalyzeImpact(gen) ==
    /\ pc = "aggregation"
    /\ generation' = [generation EXCEPT !["impact"] = gen]
    /\ counters' = increment(counters, IF gen = "ok" THEN "ai_analyses_completed"
                                       ELSE "ai_analyses_failed")
    /\ impact_results' = _analyze_impact(parallel_results, gen)
    /\ log' = log \o <<"phase_2_completed", "phase_3_started">>
    /\ pc' = "reporting"
    /\ UNCHANGED <<args, correlation_id, next_id, task, task_result, parallel_results,
                   results, timers, review_history, feedback_result, returned, stores>>

\* _generate_report, then the results record is compiled
GenerateReport_skipping_evaluation ==
    /\ pc = "reporting"
    /\ results' =
           [status         |-> "success",
            analysis_type  |-> args.analysis_type,
            repo_path      |-> args.repo_path,
            correlation_id |-> correlation_id,
            results        |->
               [parallel_analysis |-> parallel_results,
                impact_analysis   |-> impact_results,
                final_report      |-> _generate_report(parallel_results, impact_results)]]
    /\ log' = Append(log, "phase_3_completed")
    /\ pc' = "finalize"
    /\ UNCHANGED <<args, correlation_id, next_id, task, task_result, parallel_results,
                   impact_results, generation, counters, timers, review_history,
                   feedback_result, returned, stores>>

GenerateReport ==
    /\ pc = "reporting"
    /\ results' =
           [status         |-> "success",
            analysis_type  |-> args.analysis_type,
            repo_path      |-> args.repo_path,
            correlation_id |-> correlation_id,
            results        |->
               [parallel_analysis |-> parallel_results,
                impact_analysis   |-> impact_results,
                final_report      |-> _generate_report(parallel_results, impact_results)]]
    /\ log' = log \o <<"phase_3_completed", "evaluation_started">>
    /\ pc' = "evaluation"
    /\ UNCHANGED <<args, correlation_id, next_id, task, task_result, parallel_results,
                   impact_results, generation, counters, timers, review_history,
                   feedback_result, returned, stores>>

\* llm_judge.evaluate_analysis, then the branch on enable_human_review
Evaluate(outcome) ==
    /\ pc = "evaluation"
    /\ generation' = [generation EXCEPT !["judge"] = IF outcome.ok THEN "ok" ELSE "fail"]
    /\ results' = [evaluation |-> evaluate_analysis(results, outcome)] @@ results
    /\ IF args.enable_human_review
          THEN /\ log' = log \o <<"evaluation_completed", "human_review_started">>
               /\ pc' = "human_review"
          ELSE /\ log' = Append(log, "evaluation_completed")
               /\ pc' = "finalize"
    /\ UNCHANGED <<args, correlation_id, next_id, task, task_result, parallel_results,
                   impact_results, counters, timers, review_history, feedback_result,
                   returned, stores>>

\* request_review, simulate_review, process_feedback
HumanReview(gen) ==
    LET history        == request_review(review_history, results)
        review_request == history[Len(history)]
        review_result  == process_feedback(history, review_request.review_id,
                                           simulate_review(results), gen)
    IN  /\ pc = "human_review"
        /\ generation' = [generation EXCEPT !["refinement"] = gen]
        /\ review_history' = history
        /\ results' = [human_review |-> review_result] @@ results
        /\ log' = Append(log, "human_review_completed")
        /\ pc' = "finalize"
        /\ UNCHANGED <<args, correlation_id, next_id, task, task_result,
                       parallel_results, impact_results, counters, timers,
                       feedback_result, returned, stores>>

\* duration recorded, completion counted, results returned
Complete ==
    /\ pc = "finalize"
    /\ timers' = record_duration(timers)
    /\ counters' = increment(counters, "analyses_completed")
    /\ log' = Append(log, "analysis_completed")
    /\ returned' = Append(returned, Receipt(results))
    /\ parallel_results' = NoResult
    /\ impact_results' = NoResult
    /\ pc' = "idle"
    /\ UNCHANGED <<args, correlation_id, next_id, task, task_result, results,
                   generation, review_history, feedback_result, stores>>

-----------------------------------------------------------------------------
(* review_agent.process_feedback called by a client with any review id *)

DirectProcessFeedback(review_id, gen) ==
    /\ pc = "idle"
    /\ feedback_result' =
           [review_id  |-> review_id,
            generation |-> gen,
            value      |-> process_feedback(review_history, review_id,
                                            simulate_review(results), gen)]
    /\ UNCHANGED <<pc, args, correlation_id, next_id, task, task_result,
                   parallel_results, impact_results, results, generation, log,
                   counters, timers, review_history, returned, stores>>

-----------------------------------------------------------------------------

Next ==
    \/ NewOrchestrator
    \/ \E r \in RepoPaths, a \in AnalysisTypes, h \in BOOLEAN : StartRun(r, a, h)
    \/ \E p \in Probes : \E r \in ProbeResults(p) : ProbeReturn(p, r)
    \/ \E p \in Probes : ProbeRaise(p)
    \/ GatherReturn
    \/ RunFails
    \/ \E g \in {"ok", "fail"} : AnalyzeImpact(g)
    \/ GenerateReport
    \/ \E o \in JudgeOutcomes : Evaluate(o)
    \/ \E g \in {"ok", "fail"} : HumanReview(g)
    \/ Complete
    \/ \E i \in 1..(Len(review_history) + 1), g \in {"ok", "fail"} :
           DirectProcessFeedback(i, g)

Spec == Init /\ [][Next]_vars

-----------------------------------------------------------------------------
(* Properties *)

Last(s) == s[Len(s)]

IsPrefix(a, b) == Len(a) <= Len(b) /\ SubSeq(b, 1, Len(a)) = a

Contains(s, e) == \E i \in 1..Len(s) : s[i] = e

CountStatus(status) ==
    Cardinality({i \in 1..Len(returned) : returned[i].status = status})

CountReviewed(cid) ==
    Cardinality({i \in 1..Len(returned) :
                    /\ returned[i].correlation_id = cid
                    /\ "human_review" \in returned[i].keys})

ReviewIds(history) == {history[i].review_id : i \in 1..Len(history)}

\* the logger events of a run in which every phase ran once, in order
FullLog(enable_human_review) ==
    <<"analysis_started",
      "phase_1_started", "phase_1_completed",
      "phase_2_started", "phase_2_completed",
      "phase_3_started", "phase_3_completed",
      "evaluation_started", "evaluation_completed">>
    \o (IF enable_human_review
           THEN <<"human_review_started", "human_review_completed">>
           ELSE <<>>)
    \o <<"analysis_completed">>

AfterProbing == {"aggregation", "reporting", "evaluation", "human_review", "finalize"}

RunReturned == pc = "idle" /\ results # NoResult

\* C1: in every run the phases start in the order Probing, Aggregation,
\* Reporting, Evaluation, Human Review (when enabled); a phase starts only
\* after the previous one completed, no probe task is still running while a
\* later phase is active, and a successful run has run every phase exactly once.
C1_PhasesInOrder ==
    args # NoResult =>
        /\ IsPrefix(IF Last(log) = "analysis_failed" THEN SubSeq(log, 1, Len(log) - 1)
                    ELSE log,
                    FullLog(args.enable_human_review))
        /\ pc \in AfterProbing => \A p \in Probes : task[p] = "done"
        /\ (RunReturned /\ results.status = "success") =>
               log = FullLog(args.enable_human_review)

C1_Witness ==
    /\ RunReturned
    /\ results.status = "success"
    /\ args.enable_human_review
    /\ log = FullLog(TRUE)

\* C2: Aggregation does not start, and no probe result is consumed, until all
\* three probe tasks have completed, whatever the order they finish in.
C2_GatherWaitsForAll ==
    /\ pc = "probing" => parallel_results = NoResult
    /\ (pc \in AfterProbing \/ parallel_results # NoResult) =>
           /\ \A p \in Probes : task[p] = "done"
           /\ parallel_results = task_result

C2_Witness ==
    /\ pc = "probing"
    /\ task["documentation_analysis"] = "done"
    /\ task["git_analysis"] = "running"
    /\ task["cve_analysis"] = "running"
    /\ parallel_results = NoResult

\* C3: when all three probes return, whichever of them return error-marked
\* results, the run executes Aggregation, Reporting and Evaluation and ends
\* with status "success".
C3_ErrorMarkedProbesDoNotAbort ==
    (RunReturned /\ \A p \in Probes : task[p] = "done") =>
        /\ results.status = "success"
        /\ Contains(log, "phase_2_completed")
        /\ Contains(log, "phase_3_completed")
        /\ Contains(log, "evaluation_completed")
        /\ "evaluation" \in DOMAIN results

C3_Witness ==
    /\ RunReturned
    /\ \A p \in Probes : task[p] = "done" /\ "error" \in DOMAIN task_result[p]
    /\ results.status = "success"

\* C4: every run ends with status "success" or "error"; it is "error" exactly
\* when a probe task raised out of the fan-out, and then no later phase ran,
\* the record has no report or evaluation, and analyses_failed was incremented
\* instead of analyses_completed.
C4_ErrorContainment ==
    /\ \A i \in 1..Len(returned) : returned[i].status \in {"success", "error"}
    /\ counters["analyses_failed"] = CountStatus("error")
    /\ counters["analyses_completed"] = CountStatus("success")
    /\ RunReturned =>
           /\ results.status = "error" <=> \E p \in Probes : task[p] = "raised"
           /\ results.status = "error" =>
                  /\ log = <<"analysis_started", "phase_1_started", "analysis_failed">>
                  /\ DOMAIN results = {"status", "error", "repo_path", "correlation_id"}

C4_Witness ==
    /\ RunReturned
    /\ results.status = "error"
    /\ counters["analyses_failed"] = 1
    /\ counters["analyses_completed"] = 0

\* C5: a failed judge call leaves an evaluation with overall_score 0 and an
\* error annotation; the run goes on and ends with status "success".
C5_JudgeFailureContained ==
    generation["judge"] = "fail" =>
        /\ pc \in {"human_review", "finalize", "idle"}
        /\ results.status = "success"
        /\ results.evaluation.overall_score = 0
        /\ "error" \in DOMAIN results.evaluation
        /\ pc = "idle" =>
               /\ Last(log) = "analysis_completed"
               /\ Last(returned).status = "success"

C5_Witness ==
    /\ RunReturned
    /\ generation["judge"] = "fail"
    /\ results.status = "success"
    /\ "error" \in DOMAIN results.evaluation

\* C6: the Human Review phase runs iff enable_human_review was passed: without
\* it no review request is created, the refinement call is not made and the
\* record has no human_review field; with it a successful run has the field
\* and added exactly one entry to the review history.
C6_HumanReviewOnlyOnRequest ==
    /\ Len(review_history) =
           CountReviewed(correlation_id)
           + (IF pc = "finalize" /\ "human_review" \in DOMAIN results THEN 1 ELSE 0)
    /\ args # NoResult =>
           /\ pc = "human_review" => args.enable_human_review
           /\ ~ args.enable_human_review =>
                  /\ generation["refinement"] = "none"
                  /\ "human_review" \notin DOMAIN results
                  /\ ~ Contains(log, "human_review_started")
           /\ (args.enable_human_review /\ RunReturned /\ results.status = "success") =>
                  /\ "human_review" \in DOMAIN results
                  /\ Contains(log, "human_review_completed")

C6_Witness ==
    /\ RunReturned
    /\ args.enable_human_review
    /\ results.status = "success"
    /\ "human_review" \in DOMAIN results
    /\ Len(review_history) = 1

\* C7: a failure of the refinement call, or an unknown review id, is reported
\* as status "error" in the value of process_feedback only: the top-level
\* status stays "success" and the step leaves the probe results, impact
\* assessment, report and evaluation as they were.
C7_ReviewFailureInvariant ==
    /\ generation["refinement"] = "fail" =>
           /\ results.status = "success"
           /\ results.human_review.status = "error"
    /\ generation["refinement"] = "ok" => results.human_review.status = "completed"
    /\ feedback_result # NoResult =>
           IF feedback_result.review_id \notin ReviewIds(review_history)
              THEN /\ feedback_result.value.status = "error"
                   /\ feedback_result.value.message = "Review not found"
              ELSE feedback_result.value.status =
                       (IF feedback_result.generation = "ok" THEN "completed" ELSE "error")

C7_ReviewStep ==
    /\ pc = "human_review" =>
           /\ results'.status = results.status
           /\ results'.results = results.results
           /\ results'.evaluation = results.evaluation
           /\ parallel_results' = parallel_results
           /\ impact_results' = impact_results
    /\ (feedback_result' # feedback_result /\ feedback_result' # NoResult) =>
           /\ results' = results
           /\ returned' = returned
           /\ review_history' = review_history

\* C7: a Human Review failure is reported in the human_review sub-result
\* only, in every state and across every review step.
C7_ReviewFailureContained == []C7_ReviewFailureInvariant /\ [][C7_ReviewStep]_vars

C7_Witness ==
    /\ RunReturned
    /\ generation["refinement"] = "fail"
    /\ results.status = "success"
    /\ results.human_review.status = "error"

\* C8: every completed run has its record in the Memory store and in the
\* Session store, tagged with the run's correlation identifier, so the stores
\* hold at least as many entries as runs have completed.
C8_RunsPersisted ==
    /\ Len(memories) >= Len(returned)
    /\ Len(sessions) >= Len(returned)
    /\ \A i \in 1..Len(returned) :
           /\ \E j \in 1..Len(memories) :
                  memories[j].analysis_results.correlation_id = returned[i].correlation_id
           /\ \E j \in 1..Len(sessions) :
                  sessions[j].metadata.correlation_id = returned[i].correlation_id

\* C9: every run, ending "success" or "error", records one duration in the
\* metrics sink.
C9_DurationOnEveryRun == timers = Len(returned)

\* C10: any two distinct runs return records with different correlation ids.
C10_DistinctCorrelationIds ==
    \A i, j \in 1..Len(returned) :
        i # j => returned[i].correlation_id # returned[j].correlation_id

-----------------------------------------------------------------------------
(* The aggregation phase on its own: _analyze_impact applied to every      *)
(* combination of probe results from the sets below.  A run is at the      *)
(* start of phase 2 with the three results gathered.                       *)

Files(n) == [i \in 1..n |-> "f.py"]

\* the git probe returns an integer risk score: 10, 40, 50, ..., 100, or 0
\* with an error; the last record is a result without the key
ScoreGitResults ==
    {git_completed(Files(n), 12) : n \in 0..MaxChurnFiles}
    \cup {git_error("Not a git repository"), [lookback_days |-> GIT_LOOKBACK_DAYS]}

Vuln(sev) ==
    [package |-> "p", version |-> "1.0", cve_id |-> "CVE-DEMO", severity |-> sev]

VulnLists == UNION {[1..n -> {Vuln("CRITICAL"), Vuln("HIGH")}] : n \in 0..MaxVulns}

ScoreCveResults ==
    {cve_completed(v, Len(v)) : v \in VulnLists}
    \cup {cve_no_dependencies, cve_error, [scan_status |-> "completed"]}

\* coverage in percent; the probe rounds coverage to two decimals
Coverages == {0, 20, 40, 49, 50, 69, 70, 100}

ScoreDocResults ==
    {doc_completed(c, 5, 2, <<"x.py", "y.py">>) : c \in Coverages}
    \cup {doc_error, [analysis_status |-> "completed"]}

\* the coroutine at the start of phase 2, the three tasks having returned
\* results of the given sets
ScoreStart(gits, cves, docs) ==
    /\ pc = "aggregation"
    /\ args = [repo_path |-> ".", analysis_type |-> "comprehensive",
               enable_human_review |-> FALSE]
    /\ correlation_id = 1
    /\ next_id = 2
    /\ task = [p \in Probes |-> "done"]
    /\ \E g \in gits, c \in cves, d \in docs :
           task_result = [git_analysis |-> g, cve_analysis |-> c,
                          documentation_analysis |-> d]
    /\ parallel_results = task_result
    /\ impact_results = NoResult
    /\ results = NoResult
    /\ generation = NoGeneration
    /\ log = <<"analysis_started", "phase_1_started", "phase_1_completed",
               "phase_2_started">>
    /\ counters = [c \in CounterNames |->
                      IF c \in {"git_analyses_completed", "cve_scans_completed",
                                "doc_analyses_completed"} THEN 1 ELSE 0]
    /\ timers = 0
    /\ review_history = <<>>
    /\ feedback_result = NoResult
    /\ returned = <<>>
    /\ BankIdle
    /\ SessionsIdle
    /\ ProbesIdle
    /\ CliIdle
    /\ JudgeIdle

ScoreInit == ScoreStart(ScoreGitResults, ScoreCveResults, ScoreDocResults)

ScoreNext == \E g \in {"ok", "fail"} : AnalyzeImpact(g)

SpecScore == ScoreInit /\ [][ScoreNext]_vars

\* the three inputs of the score, read as _analyze_impact reads them
GitRisk(pr) == Get(pr["git_analysis"], "risk_score", 0)
Vulns(pr) == Get(pr["cve_analysis"], "vulnerabilities", <<>>)
DocCoverage(pr) == Get(pr["documentation_analysis"], "coverage", 0)

Scored == pc = "reporting" /\ impact_results # NoResult

\* C11: the reported impact score is
\*   gitRisk*0.3 + min(cveCount*20, 50)*0.4 + (1 - docCoverage)*100*0.3
\* rounded to two decimals (here: hundredths, coverage in percent), with a
\* missing risk score, vulnerability list or coverage read as 0, empty, 0;
\* the narrative call's outcome has no part in it.
C11_ReportedImpactScore ==
    Scored =>
        LET gitRisk  == IF "risk_score" \in DOMAIN parallel_results["git_analysis"]
                           THEN parallel_results["git_analysis"].risk_score ELSE 0
            cveCount == IF "vulnerabilities" \in DOMAIN parallel_results["cve_analysis"]
                           THEN Len(parallel_results["cve_analysis"].vulnerabilities)
                           ELSE 0
            coverage == IF "coverage" \in DOMAIN parallel_results["documentation_analysis"]
                           THEN parallel_results["documentation_analysis"].coverage
                           ELSE 0
            capped   == IF cveCount * 20 < 50 THEN cveCount * 20 ELSE 50
        IN  /\ impact_results.impact_score
                 = gitRisk * 30 + capped * 40 + (100 - coverage) * 30
            /\ generation["impact"] \in {"ok", "fail"}

C11_Witness ==
    /\ Scored
    /\ generation["impact"] = "fail"
    /\ "risk_score" \notin DOMAIN parallel_results["git_analysis"]
    /\ Len(Vulns(parallel_results)) = 3
    /\ impact_results.impact_score = 2000 + 1800

SeverityRank(s) ==
    CASE s = "low" -> 0 [] s = "medium" -> 1 [] s = "high" -> 2 [] s = "critical" -> 3

\* C12: the severity tier follows the score by exclusive lower bounds: above
\* 70 critical, above 50 up to 70 high, above 30 up to 50 medium, otherwise
\* low; 70.00 is high, 70.01 critical, 50.00 medium, 30.00 low.
C12_SeverityTiers ==
    /\ Scored =>
           LET s == impact_results.impact_score
               v == impact_results.severity
           IN  /\ v = "critical" <=> s > 7000
               /\ v = "high"     <=> (s > 5000 /\ s <= 7000)
               /\ v = "medium"   <=> (s > 3000 /\ s <= 5000)
               /\ v = "low"      <=> s <= 3000
    /\ severity_of(7000) = "high"
    /\ severity_of(7001) = "critical"
    /\ severity_of(5000) = "medium"
    /\ severity_of(3000) = "low"

C12_Witness ==
    /\ Scored
    /\ impact_results.impact_score = 7000
    /\ impact_results.severity = "high"

\* C13: with the other two inputs fixed, the score does not fall when the git
\* risk rises, does not fall when the vulnerability count rises and stays the
\* same once count*20 has reached the cap 50, and does not rise when the
\* coverage rises; the severity tier moves the same way.
C13_ScoreMonotone ==
    Scored =>
        LET pr == parallel_results
            NoLess(a, b) == /\ a.impact_score >= b.impact_score
                            /\ SeverityRank(a.severity) >= SeverityRank(b.severity)
        IN  /\ \A g \in ScoreGitResults :
                   LET other == [pr EXCEPT !["git_analysis"] = g]
                   IN  GitRisk(other) >= GitRisk(pr) =>
                           NoLess(_analyze_impact(other, "ok"), impact_results)
            /\ \A c \in ScoreCveResults :
                   LET other == [pr EXCEPT !["cve_analysis"] = c]
                       more  == _analyze_impact(other, "ok")
                   IN  Len(Vulns(other)) >= Len(Vulns(pr)) =>
                           /\ NoLess(more, impact_results)
                           /\ Len(Vulns(pr)) * 20 >= 50 =>
                                  /\ more.impact_score = impact_results.impact_score
                                  /\ more.severity = impact_results.severity
            /\ \A d \in ScoreDocResults :
                   LET other == [pr EXCEPT !["documentation_analysis"] = d]
                   IN  DocCoverage(other) >= DocCoverage(pr) =>
                           NoLess(impact_results, _analyze_impact(other, "ok"))

C13_Witness ==
    /\ Scored
    /\ Len(Vulns(parallel_results)) = 3
    /\ GitRisk(parallel_results) = 50
    /\ DocCoverage(parallel_results) = 49
    /\ \E c \in ScoreCveResults :
           /\ Len(Get(c, "vulnerabilities", <<>>)) = 4
           /\ _analyze_impact([parallel_results EXCEPT !["cve_analysis"] = c],
                              "ok").impact_score = impact_results.impact_score

Texts(messages) == [i \in 1..Len(messages) |-> messages[i].text]

\* C14: the key-risk list holds the churn message iff the git risk is above
\* 50, the critical-vulnerability message iff some vulnerability is CRITICAL,
\* the low-documentation message iff the coverage is below 0.5, each at most
\* once and in that order, and the single fallback message iff none of the
\* three applies.  Git risk 60, two vulnerabilities of which one CRITICAL and
\* coverage 0.4 give severity high (score 52) and the three messages.
C14_KeyRisks ==
    Scored =>
        LET churn    == GitRisk(parallel_results) > 50
            critical == \E i \in 1..Len(Vulns(parallel_results)) :
                            Vulns(parallel_results)[i].severity = "CRITICAL"
            lowdoc   == DocCoverage(parallel_results) < 50
            expected ==
                (IF churn THEN <<"High code churn detected - potential stability issues">>
                 ELSE <<>>)
                \o (IF critical THEN <<"Critical security vulnerabilities found">>
                    ELSE <<>>)
                \o (IF lowdoc
                    THEN <<"Low documentation coverage - maintainability concern">>
                    ELSE <<>>)
        IN  /\ Texts(impact_results.key_risks)
                 = (IF churn \/ critical \/ lowdoc THEN expected
                    ELSE <<"No critical risks identified">>)
            /\ ( /\ GitRisk(parallel_results) = 60
                 /\ DocCoverage(parallel_results) = 40
                 /\ Len(Vulns(parallel_results)) = 2
                 /\ Len(SelectSeq(Vulns(parallel_results),
                                  LAMBDA v : v.severity = "CRITICAL")) = 1 )
               => /\ impact_results.severity = "high"
                  /\ impact_results.impact_score = 5200
                  /\ Len(impact_results.key_risks) = 3

C14_Witness ==
    /\ Scored
    /\ GitRisk(parallel_results) = 60
    /\ DocCoverage(parallel_results) = 40
    /\ Len(Vulns(parallel_results)) = 2
    /\ Len(SelectSeq(Vulns(parallel_results), LAMBDA v : v.severity = "CRITICAL")) = 1
    /\ Len(impact_results.key_risks) = 3
    /\ impact_results.severity = "high"

-----------------------------------------------------------------------------
(* The judge's parser on its own: _parse_evaluation_response applied to    *)
(* every response text of at most MaxLines lines over JudgeLines, and to   *)
(* the responses written out below.                                        *)

\* the orchestrator freshly constructed, no run started
Constructed ==
    /\ pc = "idle"
    /\ args = NoResult
    /\ correlation_id = 1
    /\ next_id = 2
    /\ task = [p \in Probes |-> "none"]
    /\ task_result = [p \in Probes |-> NoResult]
    /\ parallel_results = NoResult
    /\ impact_results = NoResult
    /\ results = NoResult
    /\ generation = NoGeneration
    /\ log = <<>>
    /\ counters = [c \in CounterNames |-> 0]
    /\ timers = 0
    /\ review_history = <<>>
    /\ feedback_result = NoResult
    /\ returned = <<>>

orchestrator == <<pc, args, correlation_id, next_id, task, task_result,
                  parallel_results, impact_results, results, generation, log,
                  counters, timers, review_history, feedback_result, returned>>

\* int() accepts "150" and "-5" as it accepts "85"
JudgeLines ==
    {Field("OVERALL_SCORE", v) : v \in {0, 85, 150}}
    \cup {BadField("OVERALL_SCORE")}
    \cup {Field("COMPLETENESS", 90), Field("ACCURACY", 80), Field("ACCURACY", -5),
          BadField("ACCURACY")}
    \cup {Header(s) : s \in {"strengths", "weaknesses", "recommendations"}}
    \cup {Bullet("a"), Bullet("b"), OtherLine}

\* the template of the evaluation prompt, filled in
TemplateResponse ==
    <<Field("OVERALL_SCORE", 85), OtherLine,
      Field("COMPLETENESS", 90), Field("ACCURACY", 80),
      Field("ACTIONABILITY", 75), Field("CLARITY", 95), OtherLine,
      Header("strengths"), Bullet("s1"), Bullet("s2"), Bullet("s3"), OtherLine,
      Header("weaknesses"), Bullet("w1"), Bullet("w2"), Bullet("w3"), OtherLine,
      Header("recommendations"), Bullet("r1"), Bullet("r2"), Bullet("r3")>>

DimensionsOnly ==
    <<Field("COMPLETENESS", 90), Field("ACCURACY", 80),
      Field("ACTIONABILITY", 75), Field("CLARITY", 95)>>

JudgeResponses ==
    UNION {[1..n -> JudgeLines] : n \in 0..MaxLines}
    \cup {TemplateResponse, DimensionsOnly, WellFormedResponse, PartialResponse,
          <<Field("OVERALL_SCORE", 0)>> \o DimensionsOnly}

JudgeInit ==
    /\ Constructed
    /\ BankIdle
    /\ SessionsIdle
    /\ ProbesIdle
    /\ CliIdle
    /\ judge_response \in JudgeResponses
    /\ parsed_evaluation = NoResult

ParseEvaluationResponse ==
    /\ parsed_evaluation = NoResult
    /\ parsed_evaluation' = _parse_evaluation_response(judge_response)
    /\ UNCHANGED <<orchestrator, bank, session_service, judge_response, probes, cli>>

JudgeNext == ParseEvaluationResponse

SpecJudge == JudgeInit /\ [][JudgeNext]_vars

Parsed == parsed_evaluation # NoResult

IsLabelled(line, label) == "label" \in DOMAIN line /\ line.label = label

IsBullet(line) == "item" \in DOMAIN line

IsHeader(line) == "header" \in DOMAIN line

RemoveAt(s, i) == SubSeq(s, 1, i - 1) \o SubSeq(s, i + 1, Len(s))

Max(S) == CHOOSE x \in S : \A y \in S : y <= x

\* positions of the lines "<label>: <integer>"
IntLines(lines, label) ==
    {i \in 1..Len(lines) : IsLabelled(lines[i], label) /\ lines[i].isint}

\* C15: the parsed overall score is the integer on the OVERALL_SCORE line (the
\* last one, when there are several) when that line is there and its integer
\* is not zero; otherwise, when at least one dimension score was parsed, the
\* unweighted mean of the parsed dimension scores truncated to an integer
\* (90, 80, 75, 95 give 85); otherwise 0.
C15_OverallScore ==
    Parsed =>
        LET lines   == judge_response
            overall == {i \in 1..Len(lines) : IsLabelled(lines[i], "OVERALL_SCORE")}
            onLine  == IF overall # {} /\ lines[Max(overall)].isint
                          THEN lines[Max(overall)].val ELSE 0
            parsed  == {l \in DimensionLabels : IntLines(lines, l) # {}}
            score   == [l \in parsed |-> lines[Max(IntLines(lines, l))].val]
        IN  /\ parsed_evaluation.overall_score =
                   (IF onLine # 0 THEN onLine
                    ELSE IF parsed # {}
                        THEN TruncDiv(SumOver(score, parsed), Cardinality(parsed))
                    ELSE 0)
            /\ lines = DimensionsOnly => parsed_evaluation.overall_score = 85

C15_Witness ==
    /\ Parsed
    /\ judge_response = DimensionsOnly
    /\ parsed_evaluation.overall_score = 85

\* C16: the parser returns a record for every input, and a labelled numeric
\* line (OVERALL_SCORE or a dimension) whose value int() rejects is omitted:
\* the record is the one the input without that line gives.
C16_UnparsedLineOmitted ==
    Parsed =>
        /\ DOMAIN parsed_evaluation = {"overall_score", "dimensions", "strengths",
                                       "weaknesses", "recommendations"}
        /\ \A i \in 1..Len(judge_response) :
               ("label" \in DOMAIN judge_response[i] /\ ~ judge_response[i].isint) =>
                   _parse_evaluation_response(RemoveAt(judge_response, i))
                       = parsed_evaluation

\* the section a line at position i belongs to: the last header before it
SectionAt(lines, i) ==
    LET headers == {j \in 1..(i - 1) : IsHeader(lines[j])}
    IN  IF headers = {} THEN "None" ELSE lines[Max(headers)].header

\* positions of the "- " lines under a header of section s
BulletsOf(lines, s) ==
    {i \in 1..Len(lines) : IsBullet(lines[i]) /\ SectionAt(lines, i) = s}

\* the k-th smallest element of a set of positions
Nth(S, k) == CHOOSE i \in S : Cardinality({j \in S : j < i}) = k - 1

\* C17: every "- " line is appended, in input order, to the list of the most
\* recent section header; a "- " line before any header and any other
\* unrecognized line change nothing; the template with three bullets under
\* each header gives three items in each list.
C17_BulletsBySection ==
    Parsed =>
        /\ \A s \in {"strengths", "weaknesses", "recommendations"} :
               LET at == BulletsOf(judge_response, s)
               IN  /\ Len(parsed_evaluation[s]) = Cardinality(at)
                   /\ \A k \in 1..Cardinality(at) :
                          parsed_evaluation[s][k] = judge_response[Nth(at, k)].item
        /\ \A i \in 1..Len(judge_response) :
               (\/ judge_response[i] = OtherLine
                \/ IsBullet(judge_response[i]) /\ SectionAt(judge_response, i) = "None")
               => _parse_evaluation_response(RemoveAt(judge_response, i))
                      = parsed_evaluation
        /\ judge_response = TemplateResponse =>
               /\ parsed_evaluation.strengths = <<"s1", "s2", "s3">>
               /\ parsed_evaluation.weaknesses = <<"w1", "w2", "w3">>
               /\ parsed_evaluation.recommendations = <<"r1", "r2", "r3">>

C17_Witness ==
    /\ Parsed
    /\ judge_response = TemplateResponse
    /\ Len(parsed_evaluation.strengths) = 3
    /\ Len(parsed_evaluation.weaknesses) = 3
    /\ Len(parsed_evaluation.recommendations) = 3

\* C18: the overall score and every dimension score of the parsed record lie
\* in 0..100, whatever the input.
C18_ScoresInRange ==
    Parsed =>
        /\ parsed_evaluation.overall_score \in 0..100
        /\ \A k \in DOMAIN parsed_evaluation.dimensions :
               parsed_evaluation.dimensions[k] \in 0..100

-----------------------------------------------------------------------------
(* Memory store: MemoryBank (memory/memory_bank.py), constructed without a *)
(* storage path.                                                           *)
(*                                                                         *)
(* A timestamp is the clock's tick count when the entry was stored; the    *)
(* clock ticks between any two calls, and the order of the ISO-format      *)
(* strings the code compares is the order of the instants they denote.     *)
(* The running mean is kept exact, as a fraction in lowest terms of        *)
(* hundredths; the code keeps it in a float.                               *)

RECURSIVE GCD(_, _)
GCD(a, b) == IF b = 0 THEN a ELSE GCD(b, a % b)

\* the fraction n/d, d > 0, in lowest terms
Rat(n, d) ==
    LET g == GCD(IF n < 0 THEN -n ELSE n, d)
    IN  [num |-> n \div g, den |-> d \div g]

\* dict.get through nested dictionaries
Get2(d, k1, k2) == Get(Get(d, k1, <<>>), k2, <<>>)

new_memory_entry(now, repo_path, analysis_results, tags) ==
    [memory_id        |-> now,
     repo_path        |-> repo_path,
     timestamp        |-> now,
     analysis_results |-> analysis_results,
     tags             |-> tags,
     metadata         |->
         [impact_score |-> Get(Get2(analysis_results, "results", "impact_analysis"),
                               "impact_score", 0),
          severity     |-> Get(Get2(analysis_results, "results", "impact_analysis"),
                               "severity", "unknown")]]

\* the loop over impact.get("key_risks", [])
RECURSIVE count_risks(_, _)
count_risks(p, risks) ==
    IF risks = <<>> THEN p
    ELSE LET p1   == IF "common_risks" \in DOMAIN p THEN p
                     ELSE ("common_risks" :> <<>>) @@ p
             risk == Head(risks)
             n    == Get(p1["common_risks"], risk, 0)
         IN  count_risks(
                 [p1 EXCEPT !["common_risks"] = (risk :> (n + 1)) @@ p1["common_risks"]],
                 Tail(risks))

_update_patterns(p, memory_entry) ==
    LET severity  == memory_entry.metadata.severity
        p1 == IF "severity_distribution" \in DOMAIN p THEN p
              ELSE ("severity_distribution" :> <<>>) @@ p
        p2 == [p1 EXCEPT !["severity_distribution"] =
                  (severity :> (Get(p1["severity_distribution"], severity, 0) + 1))
                  @@ p1["severity_distribution"]]
        p3 == IF "average_impact_score" \in DOMAIN p2 THEN p2
              ELSE ("average_impact_score" :> Rat(0, 1))
                   @@ ("total_analyses" :> 0) @@ p2
        total     == p3["total_analyses"]
        avg       == p3["average_impact_score"]
        new_score == memory_entry.metadata.impact_score
        p4 == [p3 EXCEPT
                  !["average_impact_score"] =
                      Rat(avg.num * total + new_score * avg.den, avg.den * (total + 1)),
                  !["total_analyses"] = total + 1]
    IN  count_risks(p4,
            Get(Get2(memory_entry.analysis_results, "results", "impact_analysis"),
                "key_risks", <<>>))

retrieve_by_repo(mems, repo_path) ==
    SelectSeq(mems, LAMBDA m : m.repo_path = repo_path)

retrieve_by_severity(mems, severity) ==
    SelectSeq(mems, LAMBDA m : m.metadata.severity = severity)

\* sorted(s, key=timestamp, reverse=True): descending, entries with equal
\* keys in their original order
RECURSIVE sorted_by_timestamp(_)
sorted_by_timestamp(s) ==
    IF s = <<>> THEN <<>>
    ELSE LET rest  == sorted_by_timestamp(SubSeq(s, 1, Len(s) - 1))
             m     == s[Len(s)]
             ahead == Cardinality({i \in 1..Len(rest) : rest[i].timestamp >= m.timestamp})
         IN  SubSeq(rest, 1, ahead) \o <<m>> \o SubSeq(rest, ahead + 1, Len(rest))

\* s[:limit]
Slice(s, limit) ==
    IF limit >= 0 THEN SubSeq(s, 1, Min(limit, Len(s)))
    ELSE SubSeq(s, 1, IF Len(s) + limit > 0 THEN Len(s) + limit ELSE 0)

retrieve_recent(mems, limit) == Slice(sorted_by_timestamp(mems), limit)

\* the score filter with > in place of >=
search_memories_exclusive(mems, min_impact_score, severity, tags, limit) ==
    LET r1 == IF min_impact_score # <<>>
                 THEN SelectSeq(mems, LAMBDA m :
                          m.metadata.impact_score > min_impact_score[1])
                 ELSE mems
        r2 == IF severity # <<>> /\ severity[1] # ""
                 THEN SelectSeq(r1, LAMBDA m : m.metadata.severity = severity[1])
                 ELSE r1
        r3 == IF tags # <<>> /\ tags[1] # <<>>
                 THEN SelectSeq(r2, LAMBDA m :
                          \E i \in 1..Len(tags[1]) : Contains(m.tags, tags[1][i]))
                 ELSE r2
    IN  Slice(sorted_by_timestamp(r3), limit)

\* an optional argument is <<>> (None) or <<value>>; an empty severity or tag
\* list does not filter
search_memories(mems, min_impact_score, severity, tags, limit) ==
    LET r1 == IF min_impact_score # <<>>
                 THEN SelectSeq(mems, LAMBDA m :
                          m.metadata.impact_score >= min_impact_score[1])
                 ELSE mems
        r2 == IF severity # <<>> /\ severity[1] # ""
                 THEN SelectSeq(r1, LAMBDA m : m.metadata.severity = severity[1])
                 ELSE r1
        r3 == IF tags # <<>> /\ tags[1] # <<>>
                 THEN SelectSeq(r2, LAMBDA m :
                          \E i \in 1..Len(tags[1]) : Contains(m.tags, tags[1][i]))
                 ELSE r2
    IN  Slice(sorted_by_timestamp(r3), limit)

\* a returned record of analyze_repository with the given score and key risks
analysis_record(score, key_risks) ==
    [status  |-> "success",
     results |-> [impact_analysis |->
                     [impact_score |-> score,
                      severity     |-> severity_of(score),
                      key_risks    |-> key_risks]]]

ChurnRisk == Message("High code churn detected - potential stability issues", 0)
LowDocRisk == Message("Low documentation coverage - maintainability concern", 0)
NoRisk == Message("No critical risks identified", 0)

BankAnalyses ==
    {analysis_record(1000, <<NoRisk>>),
     analysis_record(2000, <<LowDocRisk>>),
     analysis_record(3000, <<ChurnRisk>>),
     analysis_record(5200, <<ChurnRisk, LowDocRisk>>),
     [status |-> "error", error |-> "exception"]}

BankRepoPaths == {".", "/srv/app"}

BankTags == {<<>>, <<"prod">>}

BankInit ==
    /\ Constructed
    /\ BankIdle
    /\ SessionsIdle
    /\ ProbesIdle
    /\ CliIdle
    /\ JudgeIdle

\* what a MemoryBank call leaves with its caller
Call(op, value) == [op |-> op, value |-> value]

\* the snapshot without the patterns
_save_to_disk_without_patterns(mems, pats, ins, now) ==
    [memories |-> mems, insights |-> ins, saved_at |-> now]

\* json.dump of the snapshot: the lists, the string-keyed dicts, the strings
\* and the numbers a bank holds are written as JSON arrays, objects, strings
\* and numbers
_save_to_disk(mems, pats, ins, now) ==
    [memories |-> mems, patterns |-> pats, insights |-> ins, saved_at |-> now]

\* json.load of the snapshot, then data.get(key, default) for the three keys
_load_from_disk(file) ==
    [memories |-> Get(file, "memories", <<>>),
     patterns |-> Get(file, "patterns", <<>>),
     insights |-> Get(file, "insights", <<>>)]

\* MemoryBank(storage_path): the fields of the new instance; file is NoResult
\* when nothing exists at the path
MemoryBank(path, file) ==
    IF path /\ file # NoResult THEN _load_from_disk(file)
    ELSE [memories |-> <<>>, patterns |-> <<>>, insights |-> <<>>]

store_analysis(repo_path, analysis_results, tags) ==
    /\ clock < MaxStores
    /\ clock' = clock + 1
    /\ LET memory_entry == new_memory_entry(clock + 1, repo_path, analysis_results, tags)
       IN  /\ memories' = Append(memories, memory_entry)
           /\ patterns' = _update_patterns(patterns, memory_entry)
           /\ disk' = IF storage_path
                          THEN _save_to_disk(memories', patterns', insights, clock + 1)
                          ELSE disk
           /\ lookup' = Call("store_analysis", memory_entry.memory_id)
    /\ UNCHANGED <<insights, storage_path, orchestrator, session_service, judge, probes, cli>>

clear_memories_keeping_patterns ==
    /\ memories' = <<>>
    /\ insights' = <<>>
    /\ lookup' = Call("clear_memories", NoResult)
    /\ UNCHANGED <<patterns, storage_path, disk, clock, orchestrator, session_service,
                   judge, probes, cli>>

clear_memories ==
    /\ memories' = <<>>
    /\ patterns' = <<>>
    /\ insights' = <<>>
    /\ lookup' = Call("clear_memories", NoResult)
    /\ UNCHANGED <<storage_path, disk, clock, orchestrator, session_service, judge,
                   probes, cli>>

BankNext ==
    \/ \E r \in BankRepoPaths, a \in BankAnalyses, t \in BankTags : store_analysis(r, a, t)
    \/ clear_memories

SpecBank == BankInit /\ [][BankNext]_vars

Occurrences(s, e) == Cardinality({i \in 1..Len(s) : s[i] = e})

RECURSIVE SumScores(_)
SumScores(mems) ==
    IF mems = <<>> THEN 0
    ELSE mems[Len(mems)].metadata.impact_score + SumScores(SubSeq(mems, 1, Len(mems) - 1))

RECURSIVE RiskOccurrences(_, _)
RiskOccurrences(mems, risk) ==
    IF mems = <<>> THEN 0
    ELSE Occurrences(Get(Get2(Head(mems).analysis_results, "results", "impact_analysis"),
                         "key_risks", <<>>), risk)
         + RiskOccurrences(Tail(mems), risk)

Scores(mems) == [i \in 1..Len(mems) |-> mems[i].metadata.impact_score]

AverageImpactScore(p) == Get(p, "average_impact_score", Rat(0, 1))

C19_PatternsRecomputed ==
    LET total == Get(patterns, "total_analyses", 0)
        dist  == Get(patterns, "severity_distribution", <<>>)
        risks == Get(patterns, "common_risks", <<>>)
        avg   == AverageImpactScore(patterns)
    IN  /\ total = Len(memories)
        /\ \A s \in DOMAIN dist \cup {"low", "medium", "high", "critical", "unknown"} :
               Get(dist, s, 0) =
                   Cardinality({i \in 1..Len(memories) : memories[i].metadata.severity = s})
        /\ \A r \in DOMAIN risks \cup {ChurnRisk, LowDocRisk, NoRisk} :
               Get(risks, r, 0) = RiskOccurrences(memories, r)
        /\ avg.den > 0
        /\ avg.num * Len(memories) = SumScores(memories) * avg.den
        /\ memories = <<>> => avg.num = 0
        /\ Scores(memories) = <<1000, 2000, 3000>> => avg = [num |-> 2000, den |-> 1]

C19_MeanUpdate ==
    Len(memories') = Len(memories) + 1 =>
        LET n    == Len(memories)
            x    == memories'[n + 1].metadata.impact_score
            old  == AverageImpactScore(patterns)
            new  == AverageImpactScore(patterns')
        IN  new.num * old.den * (n + 1) = (old.num * n + x * old.den) * new.den

MostRecentFirst(s) ==
    \A i, j \in 1..Len(s) : i < j => s[i].timestamp >= s[j].timestamp

\* C20: every lookup returns its matches most recent first: retrieve_by_repo,
\* retrieve_by_severity, retrieve_recent and search_memories, after any
\* sequence of inserts.
C20_LookupsMostRecentFirst ==
    /\ \A r \in BankRepoPaths : MostRecentFirst(retrieve_by_repo(memories, r))
    /\ \A s \in {"low", "medium", "high", "critical", "unknown"} :
           MostRecentFirst(retrieve_by_severity(memories, s))
    /\ \A k \in 0..MaxStores : MostRecentFirst(retrieve_recent(memories, k))
    /\ \A k \in 0..MaxStores, t \in BankTags :
           MostRecentFirst(search_memories(memories, <<2000>>, <<>>, <<t>>, k))

-----------------------------------------------------------------------------
(* MemoryBank: every operation of the store, and the snapshot on disk *)

add_insight(insight) ==
    /\ clock < MaxStores
    /\ clock' = clock + 1
    /\ insights' = Append(insights, [insight |-> insight, learned_at |-> clock + 1])
    /\ lookup' = Call("add_insight", NoResult)
    /\ UNCHANGED <<memories, patterns, storage_path, disk, orchestrator,
                   session_service, judge, probes, cli>>

\* a new instance on the storage path of the current one takes its place
NewMemoryBank ==
    /\ LET new == MemoryBank(storage_path, disk)
       IN  /\ memories' = new.memories
           /\ patterns' = new.patterns
           /\ insights' = new.insights
    /\ lookup' = Call("MemoryBank", NoResult)
    /\ UNCHANGED <<storage_path, disk, clock, orchestrator, session_service, judge,
                   probes, cli>>

Smallest(S) == CHOOSE x \in S : \A y \in S : x <= y

get_statistics(mems, pats, ins) ==
    IF mems = <<>>
        THEN [total_memories |-> 0, total_insights |-> 0, patterns_identified |-> 0]
        ELSE [total_memories        |-> Len(mems),
              total_insights        |-> Len(ins),
              patterns_identified   |-> Cardinality(DOMAIN pats),
              oldest_memory         |-> Smallest({mems[i].timestamp : i \in 1..Len(mems)}),
              newest_memory         |-> Max({mems[i].timestamp : i \in 1..Len(mems)}),
              severity_distribution |-> Get(pats, "severity_distribution", <<>>),
              average_impact_score  |-> Get(pats, "average_impact_score", 0)]

\* the fields of the bank a lookup leaves alone
bank_fields == <<memories, patterns, insights, storage_path, disk, clock>>

RetrieveByRepo(repo_path) ==
    /\ lookup' = Call("retrieve_by_repo", retrieve_by_repo(memories, repo_path))
    /\ UNCHANGED <<bank_fields, orchestrator, session_service, judge, probes, cli>>

RetrieveBySeverity(severity) ==
    /\ lookup' = Call("retrieve_by_severity", retrieve_by_severity(memories, severity))
    /\ UNCHANGED <<bank_fields, orchestrator, session_service, judge, probes, cli>>

\* memories.sort(...) in place of sorted(memories, ...)
RetrieveRecent_sorting_in_place(limit) ==
    /\ memories' = sorted_by_timestamp(memories)
    /\ lookup' = Call("retrieve_recent", Slice(memories', limit))
    /\ UNCHANGED <<patterns, insights, storage_path, disk, clock, orchestrator,
                   session_service, judge, probes, cli>>

RetrieveRecent(limit) ==
    /\ lookup' = Call("retrieve_recent", retrieve_recent(memories, limit))
    /\ UNCHANGED <<bank_fields, orchestrator, session_service, judge, probes, cli>>

SearchMemories(q) ==
    /\ lookup' = Call("search_memories",
                      search_memories(memories, q.min_impact_score, q.severity,
                                      q.tags, q.limit))
    /\ UNCHANGED <<bank_fields, orchestrator, session_service, judge, probes, cli>>

GetLearnedInsights ==
    /\ lookup' = Call("get_learned_insights", insights)
    /\ UNCHANGED <<bank_fields, orchestrator, session_service, judge, probes, cli>>

GetPatterns ==
    /\ lookup' = Call("get_patterns", patterns)
    /\ UNCHANGED <<bank_fields, orchestrator, session_service, judge, probes, cli>>

GetStatistics ==
    /\ lookup' = Call("get_statistics", get_statistics(memories, patterns, insights))
    /\ UNCHANGED <<bank_fields, orchestrator, session_service, judge, probes, cli>>

\* the calls the callers make: <<repo_path, analysis_results, tags>>
PersistStores ==
    {<<".", analysis_record(2000, <<LowDocRisk>>), <<"prod">>>>,
     <<".", analysis_record(5200, <<ChurnRisk, LowDocRisk>>), <<>>>>,
     <<"/srv/app", analysis_record(5200, <<ChurnRisk, LowDocRisk>>), <<"prod">>>>}

Queries ==
    {[min_impact_score |-> <<>>, severity |-> <<>>, tags |-> <<>>, limit |-> 10],
     [min_impact_score |-> <<3000>>, severity |-> <<"high">>, tags |-> <<<<"prod">>>>,
      limit |-> 1],
     [min_impact_score |-> <<5200>>, severity |-> <<>>, tags |-> <<>>, limit |-> 10],
     [min_impact_score |-> <<0>>, severity |-> <<"low">>, tags |-> <<>>, limit |-> 10],
     [min_impact_score |-> <<>>, severity |-> <<>>, tags |-> <<<<"api", "prod">>>>,
      limit |-> 1],
     [min_impact_score |-> <<>>, severity |-> <<"">>, tags |-> <<>>, limit |-> 10],
     [min_impact_score |-> <<>>, severity |-> <<>>, tags |-> <<<<>>>>, limit |-> 10]}

Readers ==
    {"retrieve_by_repo", "retrieve_by_severity", "retrieve_recent", "search_memories",
     "get_learned_insights", "get_patterns", "get_statistics"}

PersistInit ==
    /\ Constructed
    /\ memories = <<>>
    /\ patterns = <<>>
    /\ insights = <<>>
    /\ storage_path \in BOOLEAN
    /\ disk = NoResult
    /\ lookup = NoResult
    /\ clock = 0
    /\ SessionsIdle
    /\ ProbesIdle
    /\ CliIdle
    /\ JudgeIdle

PersistNext ==
    \/ \E c \in PersistStores : store_analysis(c[1], c[2], c[3])
    \/ add_insight("churn follows releases")
    \/ clear_memories
    \/ NewMemoryBank
    \/ \E r \in BankRepoPaths : RetrieveByRepo(r)
    \/ \E v \in {"low", "high"} : RetrieveBySeverity(v)
    \/ \E n \in {1, 10} : RetrieveRecent(n)
    \/ \E q \in Queries : SearchMemories(q)
    \/ GetLearnedInsights
    \/ GetPatterns
    \/ GetStatistics

SpecPersist == PersistInit /\ [][PersistNext]_vars

\* C21: the memory store is append-only between clears: store_analysis adds
\* exactly one entry at the end and leaves the entries before it as they
\* were, and every lookup and add_insight leave the list as it was; only
\* clear_memories (and a new instance) replace the list.
C21_Step ==
    /\ lookup'.op = "store_analysis" =>
           /\ Len(memories') = Len(memories) + 1
           /\ SubSeq(memories', 1, Len(memories)) = memories
    /\ lookup'.op \in Readers \cup {"add_insight"} => memories' = memories
    /\ lookup'.op = "clear_memories" => memories' = <<>>

C21_AppendOnly == [][C21_Step]_vars

\* a lookup has returned entries of a store holding several, in another order
C21_Witness ==
    /\ lookup # NoResult
    /\ lookup.op = "retrieve_recent"
    /\ Len(memories) >= 2
    /\ Len(lookup.value) >= 2
    /\ lookup.value # memories

-----------------------------------------------------------------------------
(* InMemorySessionService and the sessions it holds *)

new_session(session_id, now, metadata) ==
    [session_id           |-> session_id,
     created_at           |-> now,
     updated_at           |-> now,
     state                |-> <<>>,
     conversation_history |-> <<>>,
     analysis_results     |-> NoResult,
     metadata             |-> metadata]

\* d[k] = v on a dict
Put(d, k, v) == [x \in DOMAIN d \cup {k} |-> IF x = k THEN v ELSE d[x]]

add_message(session, role, content, now) ==
    [session EXCEPT
        !.conversation_history =
            Append(@, [role |-> role, content |-> content, timestamp |-> now,
                       metadata |-> <<>>]),
        !.updated_at = now]

update_state(session, key, value, now) ==
    [session EXCEPT !.state = Put(@, key, value), !.updated_at = now]

\* the position of the session with this id, 0 when there is none
IndexOf(ss, session_id) ==
    IF \E i \in 1..Len(ss) : ss[i].session_id = session_id
        THEN CHOOSE i \in 1..Len(ss) : ss[i].session_id = session_id
        ELSE 0

\* min(keys, key=created_at) in place of key=updated_at
_evict_oldest_session_by_creation(ss) ==
    IF ss = <<>> THEN ss
    ELSE RemoveAt(ss, CHOOSE i \in 1..Len(ss) :
                          /\ \A j \in 1..Len(ss) : ss[i].created_at <= ss[j].created_at
                          /\ \A j \in 1..(i - 1) : ss[j].created_at # ss[i].created_at)

\* the last of the minimal ones in place of the first
_evict_oldest_session_last_minimal(ss) ==
    IF ss = <<>> THEN ss
    ELSE RemoveAt(ss, CHOOSE i \in 1..Len(ss) :
                          /\ \A j \in 1..Len(ss) : ss[i].updated_at <= ss[j].updated_at
                          /\ \A j \in (i + 1)..Len(ss) : ss[j].updated_at # ss[i].updated_at)

\* min(keys, key=updated_at): the first of the minimal ones in the order of
\* the dict
_evict_oldest_session(ss) ==
    IF ss = <<>> THEN ss
    ELSE RemoveAt(ss, CHOOSE i \in 1..Len(ss) :
                          /\ \A j \in 1..Len(ss) : ss[i].updated_at <= ss[j].updated_at
                          /\ \A j \in 1..(i - 1) : ss[j].updated_at # ss[i].updated_at)

\* the size is compared with the maximum before the session is added
create_session_checking_before_insert(ss, max, session_id, now, metadata) ==
    Append(IF Len(ss) > max THEN _evict_oldest_session(ss) ELSE ss,
           new_session(session_id, now, metadata))

\* the sessions after create_session
create_session(ss, max, session_id, now, metadata) ==
    LET added == Append(ss, new_session(session_id, now, metadata))
    IN  IF Len(added) > max THEN _evict_oldest_session(added) ELSE added

\* state_updates is a sequence of <<key, value>>, analysis_results a record;
\* <<>> is None or empty for either
RECURSIVE apply_state_updates(_, _, _)
apply_state_updates(session, state_updates, now) ==
    IF state_updates = <<>> THEN session
    ELSE apply_state_updates(update_state(session, state_updates[1][1],
                                          state_updates[1][2], now),
                             Tail(state_updates), now)

\* the session after update_session found it
update_session(session, state_updates, analysis_results, now) ==
    LET s1 == apply_state_updates(session, state_updates, now)
    IN  IF analysis_results # <<>>
            THEN [s1 EXCEPT !.analysis_results = analysis_results, !.updated_at = now]
            ELSE s1

RECURSIVE sorted_by_updated_at(_)
sorted_by_updated_at(s) ==
    IF s = <<>> THEN <<>>
    ELSE LET rest  == sorted_by_updated_at(SubSeq(s, 1, Len(s) - 1))
             m     == s[Len(s)]
             ahead == Cardinality({i \in 1..Len(rest) : rest[i].updated_at >= m.updated_at})
         IN  SubSeq(rest, 1, ahead) \o <<m>> \o SubSeq(rest, ahead + 1, Len(rest))

\* sessions[offset:offset + limit], offset and limit not negative
list_sessions(ss, limit, offset) ==
    SubSeq(sorted_by_updated_at(ss), offset + 1, Min(offset + limit, Len(ss)))

\* datetime.now(): the clock never runs backwards, and two readings can agree
Now == {t \in {clock, clock + 1} : t <= MaxTicks}

CreateSession(metadata, now) ==
    /\ uuids < MaxCreates
    /\ uuids' = uuids + 1
    /\ clock' = now
    /\ sessions' = create_session(sessions, max_sessions, uuids + 1, now, metadata)
    /\ session_call' = Call("create_session", new_session(uuids + 1, now, metadata))
    /\ UNCHANGED <<max_sessions, orchestrator, memory_bank, judge, probes, cli>>

GetSession(session_id) ==
    /\ session_call' = Call("get_session",
                            IF IndexOf(sessions, session_id) = 0 THEN NoResult
                            ELSE sessions[IndexOf(sessions, session_id)])
    /\ UNCHANGED <<sessions, max_sessions, uuids, clock, orchestrator, memory_bank,
                   judge, probes, cli>>

UpdateSession(session_id, state_updates, analysis_results, now) ==
    LET i == IndexOf(sessions, session_id)
    IN  /\ IF i = 0
              THEN /\ session_call' = Call("update_session", NoResult)
                   /\ UNCHANGED <<sessions, clock>>
              ELSE LET session == update_session(sessions[i], state_updates,
                                                 analysis_results, now)
                   IN  /\ sessions' = [sessions EXCEPT ![i] = session]
                       /\ session_call' = Call("update_session", session)
                       /\ clock' = IF state_updates = <<>> /\ analysis_results = <<>>
                                      THEN clock ELSE now
        /\ UNCHANGED <<max_sessions, uuids, orchestrator, memory_bank, judge, probes, cli>>

\* the first session of the dict is deleted in place of the one with this id
DeleteSession_removing_first(session_id) ==
    LET i == IndexOf(sessions, session_id)
    IN  /\ sessions' = IF i = 0 THEN sessions ELSE RemoveAt(sessions, 1)
        /\ session_call' = Call("delete_session", i # 0)
        /\ UNCHANGED <<max_sessions, uuids, clock, orchestrator, memory_bank, judge,
                       probes, cli>>

DeleteSession(session_id) ==
    LET i == IndexOf(sessions, session_id)
    IN  /\ sessions' = IF i = 0 THEN sessions ELSE RemoveAt(sessions, i)
        /\ session_call' = Call("delete_session", i # 0)
        /\ UNCHANGED <<max_sessions, uuids, clock, orchestrator, memory_bank, judge,
                       probes, cli>>

ListSessions(limit, offset) ==
    /\ session_call' = Call("list_sessions", list_sessions(sessions, limit, offset))
    /\ UNCHANGED <<sessions, max_sessions, uuids, clock, orchestrator, memory_bank,
                   judge, probes, cli>>

GetSessionCount ==
    /\ session_call' = Call("get_session_count", Len(sessions))
    /\ UNCHANGED <<sessions, max_sessions, uuids, clock, orchestrator, memory_bank,
                   judge, probes, cli>>

ClearAllSessions ==
    /\ sessions' = <<>>
    /\ session_call' = Call("clear_all_sessions", NoResult)
    /\ UNCHANGED <<max_sessions, uuids, clock, orchestrator, memory_bank, judge, probes, cli>>

\* session.add_message(...) on a session the store holds
AddMessage(session_id, now) ==
    LET i == IndexOf(sessions, session_id)
    IN  /\ i # 0
        /\ Len(sessions[i].conversation_history) < MaxMessages
        /\ sessions' = [sessions EXCEPT ![i] = add_message(@, "user", "analyse", now)]
        /\ clock' = now
        /\ session_call' = Call("add_message", NoResult)
        /\ UNCHANGED <<max_sessions, uuids, orchestrator, memory_bank, judge, probes, cli>>

\* session.update_state(...) on a session the store holds
UpdateState(session_id, now) ==
    LET i == IndexOf(sessions, session_id)
    IN  /\ i # 0
        /\ sessions' = [sessions EXCEPT ![i] = update_state(@, "phase", "done", now)]
        /\ clock' = now
        /\ session_call' = Call("update_state", NoResult)
        /\ UNCHANGED <<max_sessions, uuids, orchestrator, memory_bank, judge, probes, cli>>

\* update_session(id) and update_session(id, state_updates, analysis_results)
UpdateArguments ==
    {<< <<>>, <<>> >>, << <<<<"phase", "done">>>>, [status |-> "success"] >>}

\* InMemorySessionService(max_sessions=...)
Capacities == 0..2

\* the ids a caller can hold, and one that was never issued
SessionIds == 1..(uuids + 1)

SessionInit ==
    /\ Constructed
    /\ BankIdle
    /\ JudgeIdle
    /\ ProbesIdle
    /\ CliIdle
    /\ sessions = <<>>
    /\ max_sessions \in Capacities
    /\ uuids = 0
    /\ session_call = NoResult

SessionNext ==
    \/ \E now \in Now : CreateSession([source |-> "cli"], now)
    \/ \E id \in SessionIds : GetSession(id)
    \/ \E id \in SessionIds, now \in Now :
           \E c \in UpdateArguments : UpdateSession(id, c[1], c[2], now)
    \/ \E id \in SessionIds : DeleteSession(id)
    \/ ListSessions(10, 0)
    \/ GetSessionCount
    \/ ClearAllSessions
    \/ \E id \in SessionIds, now \in Now : AddMessage(id, now)
    \/ \E id \in SessionIds, now \in Now : UpdateState(id, now)

SpecSession == SessionInit /\ [][SessionNext]_vars

\* C22: the session store never holds more than max_sessions sessions.
C22_SizeWithinMaximum == Len(sessions) <= max_sessions

\* a store of capacity 2 is full after a third session was created
C22_Witness ==
    /\ max_sessions = 2
    /\ Len(sessions) = 2
    /\ uuids >= 3
    /\ session_call # NoResult
    /\ session_call.op = "create_session"

\* the sessions other than the one with this id
Others(ss, session_id) == SelectSeq(ss, LAMBDA x : x.session_id # session_id)

\* C23: a create_session that would exceed max_sessions evicts exactly one
\* session, one whose updated_at is minimal among those present, and leaves
\* the others as they were; with capacity 2 the third session evicts the
\* least recently updated of the first two. add_message, update_state and an
\* update_session that applies an update set updated_at to the time of the
\* call, the reads leave it as it was.
C23_Step ==
    LET op == session_call'.op
        all == Append(sessions, session_call'.value)
    IN  /\ (op = "create_session" /\ Len(sessions) >= max_sessions) =>
               \E i \in 1..Len(all) :
                   /\ sessions' = RemoveAt(all, i)
                   /\ \A j \in 1..Len(all) : all[i].updated_at <= all[j].updated_at
        /\ (op = "create_session" /\ Len(sessions) < max_sessions) => sessions' = all
        /\ (op = "create_session" /\ max_sessions = 2 /\ Len(sessions) = 2) =>
               \E i \in 1..2 :
                   /\ sessions' = <<sessions[3 - i], session_call'.value>>
                   /\ sessions[i].updated_at <= sessions[3 - i].updated_at
        /\ op \in {"add_message", "update_state"} =>
               \E i \in 1..Len(sessions) :
                   /\ sessions'[i].updated_at = clock'
                   /\ sessions'[i].updated_at >= sessions[i].updated_at
                   /\ Others(sessions', sessions[i].session_id)
                          = Others(sessions, sessions[i].session_id)
        /\ (op = "update_session" /\ session_call'.value # NoResult
               /\ session_call'.value # sessions[IndexOf(sessions, session_call'.value.session_id)]) =>
               /\ session_call'.value.updated_at = clock'
               /\ Others(sessions', session_call'.value.session_id)
                      = Others(sessions, session_call'.value.session_id)
        /\ op \in {"get_session", "list_sessions", "get_session_count"} =>
               sessions' = sessions

-----------------------------------------------------------------------------
(* The three probes, called on a repository *)

\* an exception leaving a block
Raised(e) == [raised |-> e]

IsRaised(r) == "raised" \in DOMAIN r

git_no_commits ==
    [risk_score       |-> 0,
     high_churn_files |-> <<>>,
     total_commits    |-> 0,
     message          |-> "No commits in the specified time range"]

\* the try block of analyze_git_history
git_try(env) ==
    IF ~env.resolvable THEN Raised("Exception")
    ELSE IF ~(env.exists /\ env.is_git) THEN git_error("Not a git repository")
    ELSE IF env.git_fails THEN Raised("CalledProcessError")
    ELSE IF env.commits = 0 THEN git_no_commits
    ELSE git_completed(Files(env.churn), env.commits)

\* without the handler of Exception
analyze_git_history_in_catching_git_errors_only(env) ==
    LET r == git_try(env)
    IN  IF r = Raised("CalledProcessError") THEN git_error("Git command failed")
        ELSE r

analyze_git_history_in(env) ==
    LET r == git_try(env)
    IN  IF r = Raised("CalledProcessError") THEN git_error("Git command failed")
        ELSE IF IsRaised(r) THEN git_error("Analysis failed")
        ELSE r

Known(dep) ==
    \/ dep.name = "requests" /\ dep.version = "2.25.0"
    \/ dep.name = "django" /\ dep.version = "2.2.0"

_check_vulnerabilities(dependencies) ==
    LET vuln(dep) ==
            [package  |-> dep.name,
             version  |-> dep.version,
             cve_id   |-> IF dep.name = "requests" THEN "CVE-2021-DEMO" ELSE "CVE-2020-DEMO",
             severity |-> IF dep.name = "requests" THEN "HIGH" ELSE "CRITICAL"]
        known == SelectSeq(dependencies, Known)
    IN  [i \in 1..Len(known) |-> vuln(known[i])]

\* the try block of scan_dependencies_for_cves
cve_try(env) ==
    IF ~env.resolvable THEN Raised("Exception")
    ELSE LET found_dependencies ==
                 IF env.exists /\ env.manifest THEN env.dependencies ELSE <<>>
         IN  IF found_dependencies = <<>> THEN cve_no_dependencies
             ELSE cve_completed(_check_vulnerabilities(found_dependencies),
                                Len(found_dependencies))

scan_dependencies_for_cves_in(env) ==
    LET r == cve_try(env)
    IN  IF IsRaised(r) THEN cve_error ELSE r

doc_no_python_files(has_readme) ==
    [coverage           |-> 0,
     has_readme         |-> has_readme,
     total_files        |-> 0,
     documented_files   |-> 0,
     undocumented_files |-> <<>>,
     analysis_status    |-> "no_python_files_found"]

\* the try block of analyze_documentation; the coverage in percent
doc_try(env) ==
    IF ~env.resolvable THEN Raised("Exception")
    ELSE IF ~env.exists \/ env.python_files = 0
        THEN doc_no_python_files(env.exists /\ env.has_readme)
    ELSE [doc_completed((env.documented * 100) \div env.python_files,
                        env.python_files, env.documented,
                        Files(Min(10, env.python_files - env.documented)))
             EXCEPT !.has_readme = env.has_readme]

analyze_documentation_in(env) ==
    LET r == doc_try(env)
    IN  IF IsRaised(r) THEN doc_error ELSE r

Safe == [name |-> "flask", version |-> "3.0.0"]

Dependencies ==
    {<<>>,
     <<Safe>>,
     <<[name |-> "django", version |-> "2.2.0"], Safe,
       [name |-> "requests", version |-> "2.25.0"]>>}

\* what a probe can find at repo_path; resolvable is FALSE for a path that
\* Path(...).resolve() rejects
Environments ==
    [resolvable   : BOOLEAN,
     exists       : BOOLEAN,
     is_git       : BOOLEAN,
     git_fails    : BOOLEAN,
     commits      : {0, 12},
     churn        : {0, 3, MaxChurnFiles},
     manifest     : BOOLEAN,
     dependencies : Dependencies,
     has_readme   : BOOLEAN,
     python_files : {0, 4},
     documented   : {0, 1}]

AnalyzeGitHistory ==
    /\ probe_call' = Call("analyze_git_history", analyze_git_history_in(environment))
    /\ UNCHANGED <<environment, orchestrator, bank, session_service, judge, cli>>

ScanDependenciesForCves ==
    /\ probe_call' = Call("scan_dependencies_for_cves",
                          scan_dependencies_for_cves_in(environment))
    /\ UNCHANGED <<environment, orchestrator, bank, session_service, judge, cli>>

AnalyzeDocumentation ==
    /\ probe_call' = Call("analyze_documentation", analyze_documentation_in(environment))
    /\ UNCHANGED <<environment, orchestrator, bank, session_service, judge, cli>>

ProbeInit ==
    /\ Constructed
    /\ BankIdle
    /\ SessionsIdle
    /\ JudgeIdle
    /\ CliIdle
    /\ environment \in Environments
    /\ probe_call = NoResult

ProbeNext ==
    \/ AnalyzeGitHistory
    \/ ScanDependenciesForCves
    \/ AnalyzeDocumentation

SpecProbe == ProbeInit /\ [][ProbeNext]_vars

Called(op) == probe_call # NoResult /\ probe_call.op = op

\* C26: every probe call returns a result and never raises, whatever the
\* path holds; a result of an internal failure has an error field and the
\* neutral defaults; without a dependency manifest the scan returns no
\* dependencies, the status no_dependency_files_found and no error field.
C26_ProbesNeverRaise ==
    probe_call # NoResult =>
        LET r == probe_call.value
            failed == \/ ~environment.resolvable
                      \/ /\ Called("analyze_git_history")
                         /\ environment.exists /\ environment.is_git
                         /\ environment.git_fails
        IN  /\ ~IsRaised(r)
            /\ failed => "error" \in DOMAIN r
            /\ (Called("analyze_git_history") /\ "error" \in DOMAIN r) =>
                   /\ r.risk_score = 0
                   /\ r.total_commits = 0
                   /\ r.high_churn_files = <<>>
            /\ (Called("scan_dependencies_for_cves") /\ "error" \in DOMAIN r) =>
                   /\ r.vulnerabilities = <<>>
                   /\ r.total_dependencies = 0
            /\ (Called("analyze_documentation") /\ "error" \in DOMAIN r) =>
                   /\ r.coverage = 0
                   /\ r.total_files = 0
            /\ (Called("scan_dependencies_for_cves") /\ environment.resolvable
                   /\ ~environment.manifest) =>
                   /\ r.total_dependencies = 0
                   /\ r.scan_status = "no_dependency_files_found"
                   /\ "error" \notin DOMAIN r

\* the git probe has met a path it cannot resolve and returned the error
\* result
C26_Witness ==
    /\ Called("analyze_git_history")
    /\ ~environment.resolvable
    /\ probe_call.value = git_error("Analysis failed")

\* the keys the structure tests assert on
AssertedKeys(op) ==
    CASE op = "analyze_git_history" -> {"risk_score", "total_commits", "high_churn_files"}
      [] op = "scan_dependencies_for_cves" ->
             {"vulnerabilities", "total_dependencies", "severity_summary"}
      [] op = "analyze_documentation" -> {"coverage", "total_files", "documented_files"}

\* C27: every result a probe returns, completed, without data or with an
\* error, has the keys its structure test asserts on, and a documentation
\* coverage between 0 and 1.
C27_ResultKeys ==
    probe_call # NoResult =>
        /\ AssertedKeys(probe_call.op) \subseteq DOMAIN probe_call.value
        /\ Called("analyze_documentation") =>
               /\ probe_call.value.coverage >= 0
               /\ probe_call.value.coverage <= 100

-----------------------------------------------------------------------------
(* main(): the command line around one run of analyze_repository *)

\* the keys print_summary indexes in each probe result
PrintedKeys(p) ==
    CASE p = "git_analysis" ->
             {"risk_score", "lookback_days", "total_commits", "high_churn_files"}
      [] p = "cve_analysis" ->
             {"total_dependencies", "vulnerabilities", "severity_summary"}
      [] p = "documentation_analysis" ->
             {"coverage", "has_readme", "total_files", "documented_files",
              "function_coverage"}

\* print_summary: "printed", or the KeyError of a missing key
print_summary(r) ==
    IF r.status # "success" THEN "printed"
    ELSE IF \A p \in Probes :
                PrintedKeys(p) \subseteq DOMAIN r.results.parallel_analysis[p]
        THEN "printed"
    ELSE "KeyError"

\* severity_exit_codes.get(severity, 0)
severity_exit_code(severity) ==
    CASE severity = "low"      -> 0
      [] severity = "medium"   -> 1
      [] severity = "high"     -> 2
      [] severity = "critical" -> 3
      [] OTHER                 -> 0

\* the results the probes hand to a run started from the command line
CliProbeResults(p) ==
    ProbeResults(p) \cup
        (CASE p = "git_analysis"           -> {git_no_commits}
           [] p = "cve_analysis"           -> {}
           [] p = "documentation_analysis" -> {doc_no_python_files(TRUE),
                                               doc_completed(100, 1, 1, <<>>)})

\* sys.exit(code) at the named place of main
Exit(place, code) ==
    /\ main_pc' = place
    /\ exit_code' = code

\* parser.parse_args(): argparse leaves with 2 on a command line it rejects
ParseArgs ==
    /\ main_pc = "start"
    /\ IF options.valid THEN main_pc' = "running" /\ UNCHANGED exit_code
       ELSE Exit("exit_usage", 2)
    /\ UNCHANGED <<options, orchestrator, bank, session_service, judge, probes>>

\* orchestrator.analyze_repository(repo_path, analysis_type), up to its return
MainRun ==
    /\ main_pc = "running"
    /\ \/ returned = <<>> /\ StartRun(".", "comprehensive", FALSE)
       \/ \E p \in Probes : \E r \in CliProbeResults(p) : ProbeReturn(p, r)
       \/ \E p \in Probes : ProbeRaise(p)
       \/ GatherReturn
       \/ RunFails
       \/ \E g \in {"ok", "fail"} : AnalyzeImpact(g)
       \/ GenerateReport
       \/ \E o \in JudgeOutcomes : Evaluate(o)
       \/ Complete

\* a step of the try block; its exception reaches "except Exception"
MainStep(next, ok) ==
    /\ IF ok THEN main_pc' = next /\ UNCHANGED exit_code
       ELSE Exit("exit_exception", 1)
    /\ UNCHANGED <<options, orchestrator, bank, session_service, judge, probes>>

\* "if args.output": the report is written, or the write fails
SaveOutput(written) ==
    /\ main_pc = "running"
    /\ pc = "idle"
    /\ returned # <<>>
    /\ MainStep("display", ~options.output \/ written)

\* json.dumps of the results, or print_summary
Display ==
    /\ main_pc = "display"
    /\ MainStep("exit", options.json_only \/ print_summary(results) = "printed")

\* the exit code by severity, or 4
MainExit ==
    /\ main_pc = "exit"
    /\ IF results.status = "success"
          THEN Exit("exit_severity",
                    severity_exit_code(results.results.impact_analysis.severity))
          ELSE Exit("exit_error", 4)
    /\ UNCHANGED <<options, orchestrator, bank, session_service, judge, probes>>

\* KeyboardInterrupt inside the try block
Interrupt ==
    /\ main_pc \in {"running", "display", "exit"}
    /\ Exit("exit_interrupt", 130)
    /\ UNCHANGED <<options, orchestrator, bank, session_service, judge, probes>>

Options == [valid : BOOLEAN, json_only : BOOLEAN, output : BOOLEAN]

CliInit ==
    /\ Constructed
    /\ BankIdle
    /\ SessionsIdle
    /\ JudgeIdle
    /\ ProbesIdle
    /\ main_pc = "start"
    /\ options \in Options
    /\ exit_code = NoResult

CliNext ==
    \/ ParseArgs
    \/ MainRun
    \/ \E written \in BOOLEAN : SaveOutput(written)
    \/ Display
    \/ MainExit
    \/ Interrupt

SpecCli == CliInit /\ [][CliNext]_vars

\* main has left through one of the exits of its try block
Exited == main_pc \in {"exit_severity", "exit_error", "exit_interrupt", "exit_exception"}

\* C25: the process exits with 0, 1, 2 or 3 exactly when the run succeeded,
\* by its severity low, medium, high or critical, with 4 for a pipeline
\* error and 130 for an interrupt; a failure never exits with 0 to 3.
C25_ExitCodes ==
    Exited =>
        /\ exit_code \in {0, 1, 2, 3, 4, 130}
        /\ exit_code \in 0..3 <=> main_pc = "exit_severity"
        /\ main_pc = "exit_severity" =>
               /\ results.status = "success"
               /\ exit_code = severity_exit_code(results.results.impact_analysis.severity)
        /\ main_pc = "exit_error" => exit_code = 4
        /\ main_pc = "exit_interrupt" => exit_code = 130

-----------------------------------------------------------------------------
(* The run around a failed narrative call, a hung probe, and the probe tasks *)

\* what _analyze_impact returns for these probe results when the narrative
\* call fails: the record of a successful call with the placeholder text
WithPlaceholder(pr) ==
    [_analyze_impact(pr, "ok") EXCEPT !.ai_analysis = "AI analysis unavailable"]

\* C28: a failed narrative call is caught where it is made: the impact
\* record has the placeholder text and the score, severity, key risks and
\* recommendations of a successful call, the run goes on to Reporting and
\* returns with status "success".
C28_AfterFailure ==
    generation["impact"] = "fail" =>
        /\ pc = "reporting" => impact_results = WithPlaceholder(parallel_results)
        /\ RunReturned =>
               /\ results.status = "success"
               /\ results.results.impact_analysis
                      = WithPlaceholder(results.results.parallel_analysis)

C28_Step ==
    (pc = "aggregation" /\ pc' # pc /\ generation'["impact"] = "fail") => pc' = "reporting"

C28_NarrativeFailureCaught == []C28_AfterFailure /\ [][C28_Step]_vars

\* a run whose narrative call failed has returned a scored success
C28_Witness ==
    /\ RunReturned
    /\ generation["impact"] = "fail"
    /\ results.status = "success"
    /\ results.results.impact_analysis.impact_score > 0
    /\ results.results.impact_analysis.ai_analysis = "AI analysis unavailable"

\* probe p resolves: the function returns, or the task raises
ProbeResolves(p) ==
    \/ \E r \in ProbeResults(p) : ProbeReturn(p, r)
    \/ ProbeRaise(p)

\* every probe and every generation call eventually returns or fails, and
\* the event loop runs the coroutine whenever it can go on
Fairness ==
    /\ \A p \in Probes : WF_vars(ProbeResolves(p))
    /\ WF_vars(GatherReturn)
    /\ WF_vars(RunFails)
    /\ WF_vars(\E g \in {"ok", "fail"} : AnalyzeImpact(g))
    /\ WF_vars(GenerateReport)
    /\ WF_vars(\E o \in JudgeOutcomes : Evaluate(o))
    /\ WF_vars(\E g \in {"ok", "fail"} : HumanReview(g))
    /\ WF_vars(Complete)

\* the runs of one orchestrator
LiveNext ==
    \/ \E r \in RepoPaths, a \in AnalysisTypes, h \in BOOLEAN : StartRun(r, a, h)
    \/ \E p \in Probes : ProbeResolves(p)
    \/ GatherReturn
    \/ RunFails
    \/ \E g \in {"ok", "fail"} : AnalyzeImpact(g)
    \/ GenerateReport
    \/ \E o \in JudgeOutcomes : Evaluate(o)
    \/ \E g \in {"ok", "fail"} : HumanReview(g)
    \/ Complete

SpecLive == Init /\ [][LiveNext]_vars /\ Fairness

\* a run that has started returns
C29_RunTerminates == (pc # "idle") ~> (pc = "idle")

\* a step of a probing run during which some probe is and stays running
HungStep == pc = "probing" /\ \E p \in Probes : task[p] = "running" /\ task'[p] = "running"

Resolves(p) == task[p] = "running" /\ task'[p] \in {"done", "raised"}

\* the state shared through the controller: metrics, review history, stores
shared == <<counters, timers, review_history, memories, patterns, insights, sessions>>

\* a step in which a probe task resolves changes the slot of that task only
C30_ProbeStep ==
    \A p \in Probes :
        Resolves(p) =>
            /\ UNCHANGED shared
            /\ UNCHANGED <<pc, parallel_results, impact_results, results, log, returned>>
            /\ \A q \in Probes \ {p} :
                   task'[q] = task[q] /\ task_result'[q] = task_result[q]

-----------------------------------------------------------------------------
(* search_memories against its filters *)

\* entry m passes the filters of query q; sev and tag say whether the severity
\* and the tag filter count as supplied
Passes(m, q, sev, tag) ==
    /\ q.min_impact_score # <<>> => m.metadata.impact_score >= q.min_impact_score[1]
    /\ sev => m.metadata.severity = q.severity[1]
    /\ tag => \E t \in {q.tags[1][i] : i \in 1..Len(q.tags[1])} :
                  \E j \in 1..Len(m.tags) : m.tags[j] = t

\* result is the first q.limit entries, most recent first, of the entries of
\* mems that pass
FirstOfPassing(result, mems, q, sev, tag) ==
    LET passing  == {i \in 1..Len(mems) : Passes(mems[i], q, sev, tag)}
        found == {result[k] : k \in 1..Len(result)}
    IN  /\ found \subseteq {mems[i] : i \in passing}
        /\ Len(result) = Min(q.limit, Cardinality(passing))
        /\ Cardinality(found) = Len(result)
        /\ \A j, k \in 1..Len(result) :
               j < k => result[j].timestamp >= result[k].timestamp
        /\ \A i \in passing :
               mems[i] \notin found =>
                   \A k \in 1..Len(result) : result[k].timestamp >= mems[i].timestamp

Searched(q) ==
    search_memories(memories, q.min_impact_score, q.severity, q.tags, q.limit)

\* C31 as stated, every argument other than None counting as supplied:
\* search_memories returns the first `limit` entries, most recent first, of
\* the stored entries that pass every supplied filter, and never an entry that
\* fails a supplied filter.
C31_SearchFiltersSupplied ==
    \A q \in Queries :
        FirstOfPassing(Searched(q), memories, q, q.severity # <<>>, q.tags # <<>>)

\* C31, amended: an empty severity string and an empty tag list count as not
\* supplied; with that, search_memories returns the first `limit` entries,
\* most recent first, of the stored entries that pass every supplied filter.
C31_SearchFilters ==
    \A q \in Queries :
        FirstOfPassing(Searched(q), memories, q,
                       q.severity # <<>> /\ q.severity[1] # "",
                       q.tags # <<>> /\ q.tags[1] # <<>>)

\* a search with a tag filter and limit 1 has returned the more recent of two
\* tagged entries of a store that also holds an untagged one
C31_Witness ==
    /\ lookup # NoResult
    /\ lookup.op = "search_memories"
    /\ Len(memories) = 3
    /\ Len(lookup.value) = 1
    /\ Cardinality({i \in 1..3 : memories[i].tags = <<"prod">>}) = 2
    /\ lookup.value[1].tags = <<"prod">>
    /\ \A i \in 1..3 : memories[i].tags = <<"prod">> =>
           lookup.value[1].timestamp >= memories[i].timestamp
    /\ lookup.value[1] # memories[3]

-----------------------------------------------------------------------------
(* The score as the interpreter computes it: IEEE 754 binary64 arithmetic.
   A natural number of any size is a sequence of limbs in base 2^15, least
   significant first, without leading zero limbs; a float is m * 2^e with m
   such a number of exactly 53 bits, or zero. *)

RECURSIVE Pow2(_)
Pow2(k) == IF k = 0 THEN 1 ELSE 2 * Pow2(k - 1)

Base == Pow2(15)

RECURSIVE Trim(_)
Trim(a) ==
    IF a = <<>> THEN <<>>
    ELSE IF a[Len(a)] = 0 THEN Trim(SubSeq(a, 1, Len(a) - 1))
    ELSE a

RECURSIVE BigOfInt(_)
BigOfInt(n) == IF n = 0 THEN <<>> ELSE <<n % Base>> \o BigOfInt(n \div Base)

RECURSIVE IntOfBig(_)
IntOfBig(a) == IF a = <<>> THEN 0 ELSE Head(a) + Base * IntOfBig(Tail(a))

Limb(a) == IF a = <<>> THEN 0 ELSE Head(a)
Rest(a) == IF a = <<>> THEN <<>> ELSE Tail(a)

RECURSIVE BigAddCarry(_, _, _)
BigAddCarry(a, b, c) ==
    IF a = <<>> /\ b = <<>> THEN (IF c = 0 THEN <<>> ELSE <<c>>)
    ELSE LET x == Limb(a) + Limb(b) + c
         IN  <<x % Base>> \o BigAddCarry(Rest(a), Rest(b), x \div Base)

BigAdd(a, b) == BigAddCarry(a, b, 0)

\* a - b for a >= b
RECURSIVE BigSubBorrow(_, _, _)
BigSubBorrow(a, b, c) ==
    IF a = <<>> THEN <<>>
    ELSE LET x == Head(a) - Limb(b) - c
         IN  <<IF x < 0 THEN x + Base ELSE x>>
             \o BigSubBorrow(Tail(a), Rest(b), IF x < 0 THEN 1 ELSE 0)

BigSub(a, b) == Trim(BigSubBorrow(a, b, 0))

\* a * k + c for 0 <= k, c < Base
RECURSIVE BigMulSmall(_, _, _)
BigMulSmall(a, k, c) ==
    IF a = <<>> THEN (IF c = 0 THEN <<>> ELSE <<c>>)
    ELSE LET x == Head(a) * k + c
         IN  <<x % Base>> \o BigMulSmall(Tail(a), k, x \div Base)

RECURSIVE BigMul(_, _)
BigMul(a, b) ==
    IF a = <<>> \/ b = <<>> THEN <<>>
    ELSE Trim(BigAdd(BigMulSmall(a, Head(b), 0), <<0>> \o BigMul(a, Tail(b))))

\* quotient and remainder of a by d, 0 < d <= Base
RECURSIVE BigDivSmall(_, _)
BigDivSmall(a, d) ==
    IF a = <<>> THEN [q |-> <<>>, r |-> 0]
    ELSE LET hi  == BigDivSmall(Tail(a), d)
             cur == hi.r * Base + Head(a)
         IN  [q |-> Trim(<<cur \div d>> \o hi.q), r |-> cur % d]

\* -1, 0, 1 as a is below, equal to, above b
RECURSIVE BigCmp(_, _)
BigCmp(a, b) ==
    IF Len(a) # Len(b) THEN (IF Len(a) < Len(b) THEN -1 ELSE 1)
    ELSE IF a = <<>> THEN 0
    ELSE IF a[Len(a)] # b[Len(b)] THEN (IF a[Len(a)] < b[Len(b)] THEN -1 ELSE 1)
    ELSE BigCmp(SubSeq(a, 1, Len(a) - 1), SubSeq(b, 1, Len(b) - 1))

RECURSIVE Bits(_)
Bits(n) == IF n = 0 THEN 0 ELSE 1 + Bits(n \div 2)

BitLength(a) == IF a = <<>> THEN 0 ELSE 15 * (Len(a) - 1) + Bits(a[Len(a)])

\* a * 2^k
ShiftLeft(a, k) ==
    IF a = <<>> THEN <<>>
    ELSE [i \in 1..(k \div 15) |-> 0] \o BigMulSmall(a, Pow2(k % 15), 0)

\* floor(a / 2^k)
ShiftRight(a, k) ==
    IF k \div 15 >= Len(a) THEN <<>>
    ELSE BigDivSmall(SubSeq(a, k \div 15 + 1, Len(a)), Pow2(k % 15)).q

IsOdd(a) == a # <<>> /\ Head(a) % 2 = 1

\* floor(a / 2^k) rounded to nearest, a tie to even; sticky says that the
\* exact value lies strictly above a
RoundShift(a, k, sticky) ==
    LET q    == ShiftRight(a, k)
        rem  == BigSub(a, ShiftLeft(q, k))
        half == BigCmp(ShiftLeft(rem, 1), ShiftLeft(<<1>>, k))
        up   == \/ half = 1
                \/ half = 0 /\ (sticky \/ IsOdd(q))
    IN  IF k = 0 THEN a
        ELSE IF up THEN BigAdd(q, <<1>>) ELSE q

Zero == [m |-> <<>>, e |-> 0]

\* the binary64 nearest to a * 2^e (ties to even)
Nearest(a, e, sticky) ==
    LET n == BitLength(a)
    IN  IF a = <<>> THEN Zero
        ELSE IF n <= 53 THEN [m |-> ShiftLeft(a, 53 - n), e |-> e - (53 - n)]
        ELSE LET r == RoundShift(a, n - 53, sticky)
             IN  IF BitLength(r) = 54
                     THEN [m |-> ShiftRight(r, 1), e |-> e + (n - 53) + 1]
                     ELSE [m |-> r, e |-> e + (n - 53)]

float_of_int(n) == Nearest(BigOfInt(n), 0, FALSE)

\* the binary64 nearest to n/d: a decimal literal, a division, and the value
\* round(x, 2) returns
float_of_ratio(n, d) ==
    LET qr == BigDivSmall(ShiftLeft(BigOfInt(n), 75), d)
    IN  Nearest(qr.q, -75, qr.r # 0)

float_mul(x, y) == Nearest(BigMul(x.m, y.m), x.e + y.e, FALSE)

Aligned(x, y) ==
    LET e == IF x.m = <<>> THEN y.e
             ELSE IF y.m = <<>> THEN x.e
             ELSE Min(x.e, y.e)
    IN  [x |-> IF x.m = <<>> THEN <<>> ELSE ShiftLeft(x.m, x.e - e),
         y |-> IF y.m = <<>> THEN <<>> ELSE ShiftLeft(y.m, y.e - e),
         e |-> e]

float_add(x, y) ==
    LET a == Aligned(x, y) IN Nearest(BigAdd(a.x, a.y), a.e, FALSE)

\* x - y for x >= y
float_sub(x, y) ==
    LET a == Aligned(x, y) IN Nearest(BigSub(a.x, a.y), a.e, FALSE)

float_gt(x, y) ==
    LET a == Aligned(x, y) IN BigCmp(a.x, a.y) = 1

\* round(x, 2) in hundredths: the decimal of two digits nearest to the exact
\* value of x, a tie to the even digit
round2(x) ==
    IF x.m = <<>> THEN 0
    ELSE IF x.e >= 0 THEN IntOfBig(ShiftLeft(BigMulSmall(x.m, 100, 0), x.e))
    ELSE IntOfBig(RoundShift(BigMulSmall(x.m, 100, 0), -x.e, FALSE))

\* git_risk*0.3 + min(cve_count*20, 50)*0.4 + (1 - doc_coverage)*100*0.3,
\* evaluated left to right in binary64; doc_coverage in percent
impact_score_float(git_risk, cve_count, doc_coverage) ==
    float_add(
        float_add(
            float_mul(float_of_int(git_risk), float_of_ratio(3, 10)),
            float_mul(float_of_int(Min(cve_count * 20, 50)), float_of_ratio(4, 10))),
        float_mul(
            float_mul(float_sub(float_of_int(1), float_of_ratio(doc_coverage, 100)),
                      float_of_int(100)),
            float_of_ratio(3, 10)))

severity_float_inclusive(score) ==
    IF ~float_gt(float_of_int(70), score) THEN "critical"
    ELSE IF ~float_gt(float_of_int(50), score) THEN "high"
    ELSE IF ~float_gt(float_of_int(30), score) THEN "medium"
    ELSE "low"

severity_float(score) ==
    IF float_gt(score, float_of_int(70)) THEN "critical"
    ELSE IF float_gt(score, float_of_int(50)) THEN "high"
    ELSE IF float_gt(score, float_of_int(30)) THEN "medium"
    ELSE "low"

\* _analyze_impact with the score and the comparisons in binary64: the tier
\* is taken from the unrounded score, the reported score is round(score, 2)
_analyze_impact_float(pr, gen) ==
    LET git_risk     == Get(pr["git_analysis"], "risk_score", 0)
        cve_count    == Len(Get(pr["cve_analysis"], "vulnerabilities", <<>>))
        doc_coverage == Get(pr["documentation_analysis"], "coverage", 0)
        score        == impact_score_float(git_risk, cve_count, doc_coverage)
    IN  [impact_score    |-> round2(score),
         severity        |-> severity_float(score),
         key_risks       |-> _identify_key_risks(pr),
         recommendations |-> _generate_recommendations(pr),
         ai_analysis     |-> IF gen = "ok" THEN "generated narrative"
                             ELSE "AI analysis unavailable"]

AnalyzeImpactFloat(gen) ==
    /\ pc = "aggregation"
    /\ generation' = [generation EXCEPT !["impact"] = gen]
    /\ counters' = increment(counters, IF gen = "ok" THEN "ai_analyses_completed"
                                       ELSE "ai_analyses_failed")
    /\ impact_results' = _analyze_impact_float(parallel_results, gen)
    /\ log' = log \o <<"phase_2_completed", "phase_3_started">>
    /\ pc' = "reporting"
    /\ UNCHANGED <<args, correlation_id, next_id, task, task_result, parallel_results,
                   results, timers, review_history, feedback_result, returned, stores>>

\* every coverage of two decimals, in percent
AllCoverages == 0..100

FloatDocResults ==
    {doc_completed(c, 5, 2, <<"x.py", "y.py">>) : c \in AllCoverages} \cup {doc_error}

FloatCveResults ==
    {cve_completed(v, Len(v)) : v \in {w \in VulnLists : \A i \in 1..Len(w) :
                                           w[i].severity = "HIGH"}}
    \cup {cve_error}

FloatInit == ScoreStart(ScoreGitResults, FloatCveResults, FloatDocResults)

FloatNext == \E g \in {"ok", "fail"} : AnalyzeImpactFloat(g)

SpecFloat == FloatInit /\ [][FloatNext]_vars

\* C32: the reported severity is the tier the thresholds (>70 critical, >50
\* high, >30 medium, else low) give for the reported impact score, the value
\* after rounding to two decimals; no result shows exactly 70.00, 50.00 or
\* 30.00 together with the tier above that boundary.
C32_TierOfReportedScore ==
    Scored =>
        /\ impact_results.severity = severity_of(impact_results.impact_score)
        /\ impact_results.impact_score = 7000 => impact_results.severity # "critical"
        /\ impact_results.impact_score = 5000 => impact_results.severity # "high"
        /\ impact_results.impact_score = 3000 => impact_results.severity # "medium"

\* the binary64 score rounds to the exact score in hundredths, and the tier
\* taken from it is the tier of the exact score
FloatAgreesWithExact ==
    Scored => impact_results = _analyze_impact(parallel_results, generation["impact"])

\* a result reports 70.00 and tier high, from git risk 90, two
\* vulnerabilities and coverage 0.10
C32_Witness ==
    /\ Scored
    /\ GitRisk(parallel_results) = 90
    /\ Len(Vulns(parallel_results)) = 2
    /\ DocCoverage(parallel_results) = 10
    /\ impact_results.impact_score = 7000
    /\ impact_results.severity = "high"
    /\ round2(impact_score_float(90, 2, 10)) = 7000
    /\ ~float_gt(impact_score_float(90, 2, 10), float_of_int(70))

-----------------------------------------------------------------------------
(* The range of the score, and the exit code of a run without git risk *)

\* the exact score in hundredths lies in 0..80 for every git risk 0..100,
\* every number of vulnerabilities and every coverage 0..1
ScoreRange ==
    \A g \in 0..100, c \in 0..(2 * MaxVulns), k \in 0..100 :
        /\ impact_score(g, c, k) \in 0..8000
        /\ impact_score(g, c, k) - impact_score(g, 0, k) <= 2000
        /\ severity_of(impact_score(0, c, 100)) = "low"

\* every score computed in binary64 lies in 0..80, and with git risk 0 and
\* coverage 1.0 the tier is low
ScoreCapped ==
    Scored =>
        /\ impact_results.impact_score \in 0..8000
        /\ (GitRisk(parallel_results) = 0 /\ DocCoverage(parallel_results) = 100) =>
               /\ impact_results.impact_score <= 2000
               /\ impact_results.severity = "low"

\* main has left after a successful run on a repository without git risk,
\* fully documented, and without --output
ExitedAfterLowRun ==
    /\ main_pc \in {"exit_severity", "exit_error", "exit_exception"}
    /\ ~options.output
    /\ results # NoResult
    /\ results.status = "success"
    /\ GitRisk(results.results.parallel_analysis) = 0
    /\ DocCoverage(results.results.parallel_analysis) = 100

\* C33: for git risk 0..100, any number of vulnerabilities and coverage 0..1
\* the score lies in 0..80, the vulnerability term adding at most 20; with
\* git risk 0 and coverage 1.0 the severity is low for any vulnerabilities,
\* CRITICAL ones included, and the process exits with 0 after such a run.
C33_LowRunExitsZero ==
    /\ ScoreRange
    /\ ExitedAfterLowRun =>
           /\ results.results.impact_analysis.severity = "low"
           /\ exit_code = 0

\* such a run with a CRITICAL vulnerability has ended with tier low, in
\* --json-only mode with exit code 0 and in summary mode with exit code 1
LowRunJsonOnly ==
    /\ ExitedAfterLowRun
    /\ options.json_only
    /\ Len(Vulns(results.results.parallel_analysis)) = 2
    /\ results.results.impact_analysis.impact_score = 1600
    /\ main_pc = "exit_severity"
    /\ exit_code = 0

LowRunSummary ==
    /\ ExitedAfterLowRun
    /\ ~options.json_only
    /\ Len(Vulns(results.results.parallel_analysis)) = 2
    /\ results.results.impact_analysis.severity = "low"
    /\ main_pc = "exit_exception"
    /\ exit_code = 1

-----------------------------------------------------------------------------
(* A run on three error results *)

AllProbesFailed ==
    /\ RunReturned
    /\ \A p \in Probes : task[p] = "done" /\ "error" \in DOMAIN task_result[p]

\* C34: when all three probes return their error results (risk score 0, no
\* vulnerabilities, coverage 0.0) the run ends with status success, impact
\* score 30.00 and severity low, and its key risks are exactly the
\* low-documentation message; the score is that of a repository analysed
\* without error whose coverage is zero.
C34_AllProbesFailed ==
    AllProbesFailed =>
        LET impact == results.results.impact_analysis
        IN  /\ results.status = "success"
            /\ Last(returned).status = "success"
            /\ results.results.parallel_analysis = task_result
            /\ impact.impact_score = 3000
            /\ impact.severity = "low"
            /\ impact.key_risks = <<LowDocRisk>>
            /\ \A gen \in {"ok", "fail"} :
                   impact.impact_score =
                       _analyze_impact(
                           [task_result EXCEPT !["documentation_analysis"] =
                                doc_completed(0, 5, 0, <<"x.py", "y.py">>)],
                           gen).impact_score

\* such a run has returned, and the results say which probes failed
C34_Witness ==
    /\ AllProbesFailed
    /\ task_result["git_analysis"].risk_score = 0
    /\ task_result["cve_analysis"].vulnerabilities = <<>>
    /\ task_result["documentation_analysis"].coverage = 0
    /\ results.results.impact_analysis.impact_score = 3000
    /\ Last(log) = "analysis_completed"

-----------------------------------------------------------------------------
(* Key risks and recommendations of results the git probe produced *)

\* what analyze_git_history returns: on every environment, and for every
\* number of high-churn files
ProbeGitResults ==
    {analyze_git_history_in(env) : env \in Environments}
    \cup {git_completed(Files(n), 12) : n \in 0..MaxChurnFiles}

AdviceInit == ScoreStart(ProbeGitResults, ScoreCveResults, ScoreDocResults)

AdviceNext == \E g \in {"ok", "fail"} : AnalyzeImpact(g)

SpecAdvice == AdviceInit /\ [][AdviceNext]_vars

Listed(messages, text) == \E i \in 1..Len(messages) : messages[i].text = text

\* C35: for a git result of analyze_git_history every listed key risk has its
\* recommendation: the churn message comes with the refactor recommendation,
\* the critical-vulnerability message with the update recommendation, the
\* low-documentation message with the improve-documentation recommendation,
\* and the fallback recommendation appears only with the fallback key risk.
C35_RisksHaveRecommendations ==
    Scored =>
        LET risks == impact_results.key_risks
            recs  == impact_results.recommendations
        IN  /\ Listed(risks, "High code churn detected - potential stability issues")
                   => Listed(recs, "Review and refactor high-churn files")
            /\ Listed(risks, "Critical security vulnerabilities found")
                   => Listed(recs, "Update vulnerable dependencies immediately")
            /\ Listed(risks, "Low documentation coverage - maintainability concern")
                   => Listed(recs, "Improve documentation coverage to at least 70%")
            /\ Listed(recs, "Continue maintaining current standards")
                   => risks = <<NoRisk>>

\* a result of the probe on a repository with high-churn files, with a
\* CRITICAL vulnerability and coverage 0.4: three risks, three recommendations
C35_Witness ==
    /\ Scored
    /\ \E env \in Environments :
           /\ env.churn >= 3
           /\ parallel_results["git_analysis"] = analyze_git_history_in(env)
    /\ Len(impact_results.key_risks) = 3
    /\ Len(impact_results.recommendations) = 3
    /\ DocCoverage(parallel_results) = 40

\* the fallback recommendation next to the fallback key risk
AdviceFallback ==
    /\ Scored
    /\ impact_results.recommendations = <<Message("Continue maintaining current standards", 0)>>
    /\ impact_results.key_risks = <<NoRisk>>

-----------------------------------------------------------------------------
(* The session a creation returns, and operations on ids the store lacks *)

\* get_session(session_id) on the store ss
get_session(ss, session_id) ==
    IF IndexOf(ss, session_id) = 0 THEN NoResult ELSE ss[IndexOf(ss, session_id)]

\* C36: with max_sessions at least 1 and a clock that never runs backwards,
\* right after create_session the store holds the session it returned
\* (get_session on its id returns it): the eviction of a creation never
\* removes the session just created, also when sessions share one updated_at.
C36_CreatedSessionPresent ==
    (session_call # NoResult /\ session_call.op = "create_session" /\ max_sessions >= 1) =>
        /\ get_session(sessions, session_call.value.session_id) = session_call.value
        /\ Last(sessions) = session_call.value

\* a store of capacity 1 holds the second session, created at the same clock
\* reading as the first
C36_Witness ==
    /\ max_sessions = 1
    /\ session_call # NoResult
    /\ session_call.op = "create_session"
    /\ uuids = 2
    /\ sessions = <<session_call.value>>
    /\ session_call.value.session_id = 2
    /\ session_call.value.updated_at = 0
    /\ clock = 0

\* with capacity 0 the session returned is not kept
CreatedSessionEvicted ==
    /\ max_sessions = 0
    /\ session_call # NoResult
    /\ session_call.op = "create_session"
    /\ sessions = <<>>

\* C37: on an id the store does not hold, get_session and update_session
\* return None and delete_session returns False, and the store stays as it
\* was; delete_session on an id it holds returns True and removes exactly that
\* session, every other session staying as it was, updated_at included, and
\* get_session on that id then returns None.
C37_Step ==
    \A id \in SessionIds :
        LET known == IndexOf(sessions, id) # 0
            op    == session_call'.op
        IN  /\ (op = "get_session" /\ ~known /\ GetSession(id)) =>
                   /\ session_call'.value = NoResult
                   /\ sessions' = sessions
            /\ (op = "update_session" /\ ~known
                  /\ \E now \in Now, c \in UpdateArguments :
                         UpdateSession(id, c[1], c[2], now)) =>
                   /\ session_call'.value = NoResult
                   /\ sessions' = sessions
            /\ (op = "delete_session" /\ ~known /\ DeleteSession(id)) =>
                   /\ session_call'.value = FALSE
                   /\ sessions' = sessions
            /\ (op = "delete_session" /\ known /\ DeleteSession(id)) =>
                   /\ session_call'.value = TRUE
                   /\ Len(sessions') = Len(sessions) - 1
                   /\ sessions' = Others(sessions, id)
                   /\ get_session(sessions', id) = NoResult
                   /\ \A other \in SessionIds \ {id} :
                          get_session(sessions', other) = get_session(sessions, other)

C37_MissesAndDeletes == [][C37_Step]_vars

\* one of two sessions was deleted and the other, updated before, is kept
C37_Witness ==
    /\ session_call # NoResult
    /\ session_call.op = "delete_session"
    /\ session_call.value = TRUE
    /\ uuids = 2
    /\ Len(sessions) = 1
    /\ sessions[1].session_id = 1
    /\ sessions[1].updated_at > sessions[1].created_at

\* an update of a deleted session has returned None
UpdateMissed ==
    /\ session_call # NoResult
    /\ session_call.op = "update_session"
    /\ session_call.value = NoResult
    /\ Len(sessions) = 1
    /\ uuids = 2

-----------------------------------------------------------------------------
(* The snapshot after clear_memories and add_insight *)

\* C38: on a bank with a storage path the snapshot follows every change:
\* right after clear_memories a new MemoryBank on the same path is empty, no
\* cleared entry or pattern coming back, and right after add_insight a new
\* instance on the same path holds that insight.
C38_SnapshotFollowsEveryChange ==
    (lookup # NoResult /\ storage_path) =>
        LET new == MemoryBank(storage_path, disk)
        IN  /\ lookup.op = "clear_memories" =>
                   /\ new.memories = <<>>
                   /\ new.patterns = <<>>
                   /\ new.insights = <<>>
            /\ lookup.op = "add_insight" =>
                   /\ insights # <<>>
                   /\ Contains(new.insights, Last(insights))

\* after a store and a clear the snapshot still holds the cleared entry
ClearedEntryOnDisk ==
    /\ storage_path
    /\ lookup # NoResult
    /\ lookup.op = "clear_memories"
    /\ memories = <<>>
    /\ disk # NoResult
    /\ Len(MemoryBank(storage_path, disk).memories) = 1

\* an insight was added after a store and the snapshot does not hold it
InsightNotOnDisk ==
    /\ storage_path
    /\ lookup # NoResult
    /\ lookup.op = "add_insight"
    /\ Len(insights) = 1
    /\ disk # NoResult
    /\ MemoryBank(storage_path, disk).insights = <<>>

-----------------------------------------------------------------------------
(* The review history after feedback was processed *)

get_review_statistics(history) ==
    IF history = <<>>
        THEN [total_reviews |-> 0, completed_reviews |-> 0, pending_reviews |-> 0]
        ELSE LET completed == Len(SelectSeq(history,
                                  LAMBDA r : Get(r, "status", "") = "completed"))
                 pending   == Len(SelectSeq(history,
                                  LAMBDA r : Get(r, "status", "") = "pending_review"))
             IN  [total_reviews     |-> Len(history),
                  completed_reviews |-> completed,
                  pending_reviews   |-> pending,
                  completion_rate   |-> Rat(completed, Len(history))]

\* the status the history records for a review id
StatusOf(history, review_id) ==
    LET i == CHOOSE i \in 1..Len(history) : history[i].review_id = review_id
    IN  history[i].status

\* the review ids for which process_feedback is known to have returned
\* "completed": the one of the last run's review and the one of the last call
\* a client made
Processed ==
    (IF results # NoResult /\ "human_review" \in DOMAIN results
           /\ results.human_review.status = "completed"
        THEN {results.human_review.review_id} ELSE {})
    \cup
    (IF feedback_result # NoResult /\ feedback_result.value.status = "completed"
        THEN {feedback_result.value.review_id} ELSE {})

\* C39: once process_feedback has returned status completed for a review id,
\* get_review_statistics counts that review as completed and not as pending;
\* completed_reviews + pending_reviews is total_reviews at all times, and
\* completed_reviews counts the reviews whose feedback was processed.
C39_ProcessedReviewsCompleted ==
    LET stats == get_review_statistics(review_history)
    IN  /\ stats.completed_reviews + stats.pending_reviews = stats.total_reviews
        /\ \A id \in Processed : StatusOf(review_history, id) = "completed"
        /\ stats.completed_reviews >= Cardinality(Processed)

\* feedback for both reviews was processed with status completed, and the
\* statistics count two pending reviews and none completed
ProcessedStillPending ==
    /\ Cardinality(Processed) = 2
    /\ get_review_statistics(review_history).total_reviews = 2
    /\ get_review_statistics(review_history).pending_reviews = 2
    /\ get_review_statistics(review_history).completed_reviews = 0

=============================================================================
